---- MODULE Spec2Model ----
(***************************************************************************)
(* A model of dhcplib: the server's configuration, lease table and message *)
(* handlers (server.py) and the client's discover/request exchange         *)
(* (client.py), with the parts of the message codec (message.py) that the  *)
(* handlers call.                                                          *)
(*                                                                         *)
(* Python values are modelled with their type: a dotted-quad string and an *)
(* ipaddress.IPv4Address of the same address are different values, as they *)
(* are for Python's == and for dict lookup.  IPv4 addresses are their      *)
(* 32-bit integers.  Time is in whole seconds.                             *)
(***************************************************************************)
EXTENDS Integers, Sequences, FiniteSets, TLC

(***************************************************************************)
(* Bounds of the model.                                                    *)
(***************************************************************************)
MaxNow == 61          \* the clock is not advanced beyond this second
MaxRepeat == 3         \* largest repeat_count a client is built with
MaxPack == 2           \* pack() is called at most this often on an option

(***************************************************************************)
(* Python values.                                                          *)
(***************************************************************************)
NoneVal == [t |-> "NoneType", v |-> 0]
Str(a) == [t |-> "str", v |-> a]
IPv4Address(a) == [t |-> "IPv4Address", v |-> a]

\* Python's != : values of different types are unequal
PyNe(x, y) == x # y

Ip(a, b, c, d) == ((a * 256 + b) * 256 + c) * 256 + d

(***************************************************************************)
(* server.py: class constants.                                             *)
(***************************************************************************)
FREE == 0
ACTIVE == 1
OFFERED == 2
OFFER_HOLD == 60
EXCLUDED_PREFIX == {31, 32}
DEFAULT_LEASE_TIME == 3600

(***************************************************************************)
(* options.py / message.py: constants.                                     *)
(***************************************************************************)
DHCPDISCOVER == 1
DHCPOFFER == 2
DHCPREQUEST == 3
DHCPDECLINE == 4
DHCPACK == 5
DHCPNAK == 6
DHCPRELEASE == 7
DHCPINFORM == 8
BOOTREQUEST == 1
BOOTREPLY == 2

(***************************************************************************)
(* ipaddress.IPv4Network(net), net = <<address, prefixlen>>.  Host bits    *)
(* set in the address raise ValueError (strict mode).                      *)
(***************************************************************************)
IPv4Network(net) ==
    LET size == 2 ^ (32 - net[2])
    IN  IF net[1] % size # 0
        THEN [exc |-> "ValueError"]
        ELSE [exc |-> "none",
              network_address |-> net[1],
              broadcast_address |-> net[1] + size - 1,
              prefixlen |-> net[2]]

\* DHCPServerConfig._check_ip
_check_ip(net, excluded_addr, ip) ==
    /\ \A i \in 1..Len(excluded_addr) : ip # excluded_addr[i]
    /\ ip >= net.network_address
    /\ ip <= net.broadcast_address

(***************************************************************************)
(* DHCPServerConfig.__init__(net, addr_range, lease_time, identifier),     *)
(* with dns, gateway and domain left at their default None.  addr_range is *)
(* NoneVal or a sequence of addresses.                                     *)
(***************************************************************************)
DHCPServerConfig(net, addr_range, lease_time, identifier) ==
    LET ident == IF identifier = NoneVal THEN Ip(0, 0, 0, 0) ELSE identifier.v
        n == IPv4Network(net)
    IN  IF n.exc # "none" THEN [exc |-> n.exc]
        ELSE IF n.prefixlen \in EXCLUDED_PREFIX
        THEN [exc |-> "DHCPConfigInitError"]
        ELSE
        LET excluded_addr == <<n.network_address, n.broadcast_address, ident>>
            range_ok ==
                IF addr_range # NoneVal
                THEN /\ Len(addr_range.items) = 2
                     /\ ~ (addr_range.items[1] > addr_range.items[2])
                     /\ \A i \in 1..2 :
                           _check_ip(n, excluded_addr, addr_range.items[i])
                ELSE TRUE
            range ==
                IF addr_range # NoneVal
                THEN addr_range.items
                ELSE <<n.network_address + 1, n.broadcast_address - 1>>
        IN  IF ~ range_ok THEN [exc |-> "DHCPConfigInitError"]
            ELSE IF lease_time <= 0 THEN [exc |-> "DHCPConfigInitError"]
            ELSE [exc |-> "none",
                  net |-> n,
                  excluded_addr |-> excluded_addr,
                  addr_range |-> range,
                  identifier |-> IPv4Address(ident),
                  lease_time |-> lease_time]

(***************************************************************************)
(* Constructor arguments the model draws configurations from.              *)
(***************************************************************************)
Net27 == <<Ip(10, 0, 0, 0), 27>>
Net29 == <<Ip(10, 0, 0, 0), 29>>
Net30 == <<Ip(10, 0, 0, 0), 30>>
Tuple(seq) == [t |-> "tuple", items |-> seq]

ConfigArgs ==
    { \* accepted
      <<Net30, NoneVal, 90, Str(Ip(10, 0, 0, 1))>>,
      <<Net29, Tuple(<<Ip(10, 0, 0, 2), Ip(10, 0, 0, 2)>>), 90, NoneVal>>,
      \* rejected
      <<<<Ip(10, 0, 0, 0), 31>>, NoneVal, 90, NoneVal>>,
      <<<<Ip(10, 0, 0, 0), 32>>, NoneVal, 90, NoneVal>>,
      <<<<Ip(10, 0, 0, 1), 29>>, NoneVal, 90, NoneVal>>,
      <<Net29, Tuple(<<Ip(10, 0, 0, 4), Ip(10, 0, 0, 2)>>), 90, NoneVal>>,
      <<Net29, Tuple(<<Ip(10, 0, 0, 0), Ip(10, 0, 0, 2)>>), 90, NoneVal>>,
      <<Net29, Tuple(<<Ip(10, 0, 0, 2), Ip(10, 0, 0, 7)>>), 90, NoneVal>>,
      <<Net29, Tuple(<<Ip(10, 0, 0, 2), Ip(10, 0, 0, 4)>>), 90,
        Str(Ip(10, 0, 0, 4))>>,
      <<Net29, Tuple(<<Ip(10, 0, 0, 2), Ip(10, 0, 0, 9)>>), 90, NoneVal>>,
      <<Net29, Tuple(<<Ip(10, 0, 0, 2)>>), 90, NoneVal>>,
      <<Net29, NoneVal, 0, NoneVal>>,
      <<Net29, NoneVal, 0 - 5, NoneVal>> }
Configs == { DHCPServerConfig(a[1], a[2], a[3], a[4]) : a \in ConfigArgs }
ValidConfigs == { c \in Configs : c.exc = "none" }

\* hardware addresses and transaction ids that messages are built with
CHADDRS == { "AA:00:00:00:00:01", "AA:00:00:00:00:02" }
XIDS == { 1, 2 }
\* clock advances, in seconds
Ticks == { 61 }

NoIp == 0 - 1          \* _get_free_ip / _get_lease found nothing (None)
NoKey == 0 - 1         \* a lease dict has no such key

(***************************************************************************)
(* State.                                                                  *)
(*   config    the DHCPServerConfig the server was built with              *)
(*   leases    DHCPServer.leases: address |-> lease dict.  Keys are the    *)
(*             dotted-quad strings of the addresses in the function's      *)
(*             domain.  A lease has the keys chaddr, state, _xid and       *)
(*             end_time, and start_time once written (NoKey before)        *)
(*   now       datetime.datetime.now(), in seconds                         *)
(*   call      the method of the server that was called and has not yet    *)
(*             handed its result to its caller, and its argument; NoCall   *)
(*             between calls                                               *)
(*   yiaddr    what _get_free_ip returned in the last call (NoIp: None or  *)
(*             not called)                                                 *)
(*   ret, exc  what the last call returned, and the exception it raised    *)
(*   sent      the messages handed to udp_server.send_data, oldest first   *)
(*   declined  addresses with an accepted DECLINE and no accepted RELEASE  *)
(*             since (history)                                             *)
(*   offers    address |-> the hardware address it was last marked OFFERED *)
(*             for and when, for the addresses marked fewer than 60        *)
(*             seconds ago with no accepted RELEASE since (history)        *)
(***************************************************************************)
VARIABLES config, leases, now, call, yiaddr, ret, exc, sent, declined, offers

svars ==
    <<config, leases, now, call, yiaddr, ret, exc, sent, declined, offers>>

(***************************************************************************)
(* message.py: DHCPMessage.  Of the header the model keeps op, xid,        *)
(* ciaddr, yiaddr and chaddr; an optionNN field is the value of the option *)
(* with that code, NoneVal when the message has no such option (NoKey for  *)
(* option 53, whose value is an int).                                      *)
(***************************************************************************)
DHCPMessage(op, xid, ciaddr, yi, chaddr, o53, o54, o50, o51) ==
    [op |-> op, xid |-> xid, ciaddr |-> ciaddr, yiaddr |-> yi,
     chaddr |-> chaddr, option53 |-> o53, option54 |-> o54,
     option50 |-> o50, option51 |-> o51]

\* the keys of a message's __dict__ after __init__ (message.py 70-86)
MessageDictKeys ==
    { "op", "htype", "hlen", "hops", "xid", "secs", "flags", "ciaddr",
      "yiaddr", "siaddr", "giaddr", "chaddr", "sname", "file", "_options" }

\* the keyword parameters DHCPMessage.__init__ accepts (message.py 46-50)
InitParams ==
    { "op", "htype", "hlen", "hops", "xid", "secs", "flags", "ciaddr",
      "yiaddr", "siaddr", "giaddr", "chaddr", "sname", "file", "options" }

(***************************************************************************)
(* DHCPMessage.from_message(message, kwargs): updates message.__dict__     *)
(* with kwargs and calls cls on the keys of message.__dict__; a key not a  *)
(* parameter of __init__ raises TypeError.  kwargs is a record with the    *)
(* fields op, yiaddr and options (the option values of the reply).         *)
(***************************************************************************)
from_message(message, kwargs) ==
    IF ~ ((MessageDictKeys \cup DOMAIN kwargs) \subseteq InitParams)
    THEN [exc |-> "TypeError", msg |-> NoneVal]
    ELSE [exc |-> "none",
          msg |-> DHCPMessage(kwargs.op, message.xid, message.ciaddr,
                              kwargs.yiaddr, message.chaddr,
                              kwargs.options.option53,
                              kwargs.options.option54,
                              NoneVal,
                              kwargs.options.option51)]

\* DHCPServer.options plus the message type (server.py 120-124, 213, 224)
ReplyOptions(cfg, mtype) ==
    [option53 |-> mtype,
     option54 |-> Str(cfg.identifier.v),
     option51 |-> cfg.lease_time]

(***************************************************************************)
(* DHCPServer._ip_range_generator: the hosts from start to end, ascending. *)
(***************************************************************************)
_ip_range_generator(cfg) ==
    LET start_host == cfg.addr_range[1]
        end_host == cfg.addr_range[2]
    IN  [i \in 1..(end_host - start_host + 1) |-> start_host + i - 1]

\* the lease _get_free_ip creates (server.py 176-181)
NewLease(chaddr, xid, time_end) ==
    [chaddr |-> chaddr, state |-> OFFERED, _xid |-> xid,
     end_time |-> time_end, start_time |-> NoKey]

\* the lease.update of _get_free_ip (server.py 184-189).  It passes xid as
\* the key 'xid', so '_xid' keeps the value it had; no code reads the key
\* 'xid' and the model does not keep it.
ReOffer(lease, chaddr, xid, time_end) ==
    [lease EXCEPT !.chaddr = chaddr, !.state = OFFERED,
                  !.end_time = time_end]

\* Reusable, with the test for a FREE lease forgotten
Reusable_OwnOnly(lease, chaddr) ==
    lease.chaddr = chaddr

\* Reusable, with a lease that is only OFFERED to another hardware address
\* treated like a FREE one
Reusable_NotActive(lease, chaddr) ==
    lease.chaddr = chaddr \/ lease.state # ACTIVE

\* server.py 183: an existing lease may be offered to chaddr
Reusable(lease, chaddr) ==
    lease.chaddr = chaddr \/ lease.state = FREE

(***************************************************************************)
(* DHCPServer._get_free_ip(chaddr, xid) at time t on lease table ls:       *)
(* the table it leaves and the address it returns (NoIp for None).         *)
(***************************************************************************)
RECURSIVE _get_free_ip_from(_, _, _, _, _, _)
_get_free_ip_from(hosts, i, ls, chaddr, xid, t) ==
    IF i > Len(hosts)
    THEN [leases |-> ls, ip |-> NoIp]
    ELSE LET ip == hosts[i]
             time_end == t + OFFER_HOLD
         IN  IF ip \notin DOMAIN ls
             THEN [leases |-> (ip :> NewLease(chaddr, xid, time_end)) @@ ls,
                   ip |-> ip]
             ELSE IF Reusable(ls[ip], chaddr)
             THEN [leases |-> [ls EXCEPT
                                 ![ip] = ReOffer(@, chaddr, xid, time_end)],
                   ip |-> ip]
             ELSE _get_free_ip_from(hosts, i + 1, ls, chaddr, xid, t)

_get_free_ip(ls, cfg, chaddr, xid, t) ==
    _get_free_ip_from(_ip_range_generator(cfg), 1, ls, chaddr, xid, t)

\* _get_lease, with the transaction id check left out
_get_lease_NoXidCheck(ls, cfg, message, check_xid, req_ip) ==
    IF message.option54 = NoneVal
    THEN [exc |-> "AttributeError", ip |-> NoIp]
    ELSE IF PyNe(message.option54, cfg.identifier)
    THEN [exc |-> "none", ip |-> NoIp]
    ELSE IF req_ip = NoneVal /\ message.option50 = NoneVal
    THEN [exc |-> "AttributeError", ip |-> NoIp]
    ELSE
    LET key == IF req_ip # NoneVal THEN req_ip ELSE message.option50
    IN  IF ~ (key.t = "str" /\ key.v \in DOMAIN ls)
        THEN [exc |-> "none", ip |-> NoIp]
        ELSE IF message.chaddr # ls[key.v].chaddr
        THEN [exc |-> "none", ip |-> NoIp]
        ELSE [exc |-> "none", ip |-> key.v]

(***************************************************************************)
(* DHCPServer._get_lease(message, check_xid, req_ip): the key of the lease *)
(* it returns (NoIp for None), or the exception it raises.  req_ip is      *)
(* NoneVal or a string.                                                    *)
(***************************************************************************)
_get_lease(ls, cfg, message, check_xid, req_ip) ==
    IF message.option54 = NoneVal
    THEN [exc |-> "AttributeError", ip |-> NoIp]
    ELSE IF PyNe(message.option54, cfg.identifier)
    THEN [exc |-> "none", ip |-> NoIp]
    ELSE IF req_ip = NoneVal /\ message.option50 = NoneVal
    THEN [exc |-> "AttributeError", ip |-> NoIp]
    ELSE
    LET key == IF req_ip # NoneVal THEN req_ip ELSE message.option50
    IN  IF ~ (key.t = "str" /\ key.v \in DOMAIN ls)
        THEN [exc |-> "none", ip |-> NoIp]
        ELSE IF check_xid /\ message.xid # ls[key.v]._xid
        THEN [exc |-> "none", ip |-> NoIp]
        ELSE IF message.chaddr # ls[key.v].chaddr
        THEN [exc |-> "none", ip |-> NoIp]
        ELSE [exc |-> "none", ip |-> key.v]

\* _update_leases, with an expired lease taken one state back per sweep
\* (ACTIVE to OFFERED, OFFERED to FREE)
_update_leases_Demote(ls, t) ==
    [ip \in DOMAIN ls |->
        IF t > ls[ip].end_time
        THEN [ls[ip] EXCEPT !.state = IF @ = ACTIVE THEN OFFERED ELSE FREE]
        ELSE ls[ip]]

(***************************************************************************)
(* DHCPServer._update_leases at time t.                                    *)
(***************************************************************************)
_update_leases(ls, t) ==
    [ip \in DOMAIN ls |->
        IF t > ls[ip].end_time
        THEN [ls[ip] EXCEPT !.state = FREE]
        ELSE ls[ip]]

(***************************************************************************)
(* The handlers.  Each takes the lease table ls, the configuration, the    *)
(* time t and the message, and yields the table it leaves, the address     *)
(* _get_free_ip returned, the value returned, the exception raised and     *)
(* whether _get_lease found a lease (accepted).                            *)
(***************************************************************************)
Outcome(ls, ip, r, e, acc) ==
    [leases |-> ls, yiaddr |-> ip, ret |-> r, exc |-> e, accepted |-> acc]

\* DHCPServer.dhcp_discover_handler
dhcp_discover_handler(ls, cfg, t, message) ==
    LET g == _get_free_ip(ls, cfg, message.chaddr, message.xid, t)
    IN  IF g.ip = NoIp
        THEN Outcome(g.leases, NoIp, NoneVal, "none", FALSE)
        ELSE LET offer_message ==
                     from_message(message,
                                  [op |-> BOOTREPLY,
                                   yiaddr |-> Str(g.ip),
                                   options |-> ReplyOptions(cfg, DHCPOFFER)])
             IN  IF offer_message.exc # "none"
                 THEN Outcome(g.leases, g.ip, NoneVal, offer_message.exc,
                              FALSE)
                 ELSE Outcome(g.leases, g.ip, offer_message.msg, "none",
                              FALSE)

\* the lease.update of dhcp_request_handler (server.py 226-232)
Activate(lease, dt_now, lease_time) ==
    [lease EXCEPT !.state = ACTIVE, !.start_time = dt_now,
                  !.end_time = dt_now + lease_time]

\* dhcp_request_handler, with the lease updated before the ACK is built:
\* the lease is ACTIVE although from_message raises
dhcp_request_handler_UpdateFirst(ls, cfg, t, message) ==
    LET g == _get_lease(ls, cfg, message, TRUE, NoneVal)
    IN  IF g.exc # "none"
        THEN Outcome(ls, NoIp, NoneVal, g.exc, FALSE)
        ELSE IF g.ip = NoIp
        THEN Outcome(ls, NoIp, NoneVal, "none", FALSE)
        ELSE LET ack_message ==
                     from_message(message,
                                  [op |-> BOOTREPLY,
                                   yiaddr |-> message.option50,
                                   options |-> ReplyOptions(cfg, DHCPACK)])
                 updated == [ls EXCEPT ![g.ip] =
                                Activate(@, t, cfg.lease_time)]
             IN  IF ack_message.exc # "none"
                 THEN Outcome(updated, NoIp, NoneVal, ack_message.exc, TRUE)
                 ELSE Outcome(updated, NoIp, ack_message.msg, "none", TRUE)

\* DHCPServer.dhcp_request_handler
dhcp_request_handler(ls, cfg, t, message) ==
    LET g == _get_lease(ls, cfg, message, TRUE, NoneVal)
    IN  IF g.exc # "none"
        THEN Outcome(ls, NoIp, NoneVal, g.exc, FALSE)
        ELSE IF g.ip = NoIp
        THEN Outcome(ls, NoIp, NoneVal, "none", FALSE)
        ELSE LET ack_message ==
                     from_message(message,
                                  [op |-> BOOTREPLY,
                                   yiaddr |-> message.option50,
                                   options |-> ReplyOptions(cfg, DHCPACK)])
             IN  IF ack_message.exc # "none"
                 THEN Outcome(ls, NoIp, NoneVal, ack_message.exc, TRUE)
                 ELSE Outcome([ls EXCEPT ![g.ip] =
                                  Activate(@, t, cfg.lease_time)],
                              NoIp, ack_message.msg, "none", TRUE)

\* DHCPServer.dhcp_release_handler
dhcp_release_handler(ls, cfg, t, message) ==
    LET g == _get_lease(ls, cfg, message, FALSE, message.ciaddr)
    IN  IF g.exc # "none"
        THEN Outcome(ls, NoIp, NoneVal, g.exc, FALSE)
        ELSE IF g.ip = NoIp
        THEN Outcome(ls, NoIp, NoneVal, "none", FALSE)
        ELSE Outcome([ls EXCEPT ![g.ip].state = FREE],
                     NoIp, NoneVal, "none", TRUE)

\* DHCPServer.dhcp_decline_handler
dhcp_decline_handler(ls, cfg, t, message) ==
    LET g == _get_lease(ls, cfg, message, FALSE, NoneVal)
    IN  IF g.exc # "none"
        THEN Outcome(ls, NoIp, NoneVal, g.exc, FALSE)
        ELSE IF g.ip = NoIp
        THEN Outcome(ls, NoIp, NoneVal, "none", FALSE)
        ELSE Outcome([ls EXCEPT ![g.ip].state = ACTIVE],
                     NoIp, NoneVal, "none", TRUE)

(***************************************************************************)
(* DHCPMessage.pack and DHCPMessage.from_bytes.  A datagram is the record  *)
(* of what its bytes encode: addresses as 4 bytes (inet_aton of str of the *)
(* value), so the type of an address value is not on the wire.             *)
(***************************************************************************)
Wire(value) == IF value = NoneVal THEN NoIp ELSE value.v

pack(message) ==
    [op |-> message.op, xid |-> message.xid,
     ciaddr |-> Wire(message.ciaddr), yiaddr |-> Wire(message.yiaddr),
     chaddr |-> message.chaddr, option53 |-> message.option53,
     option54 |-> Wire(message.option54),
     option50 |-> Wire(message.option50),
     option51 |-> message.option51]

\* HEADER_FORMAT '!4B I 2H 4s 4s 4s 4s 16s 64s 128s 4B': <<repeat, code>>
HEADER_FORMAT ==
    << <<4, "B">>, <<1, "I">>, <<2, "H">>, <<4, "s">>, <<4, "s">>,
       <<4, "s">>, <<4, "s">>, <<16, "s">>, <<64, "s">>, <<128, "s">>,
       <<4, "B">> >>

\* the number of values struct.unpack yields for a format: an 's' item is
\* one value whatever its repeat count
RECURSIVE UnpackCount(_, _)
UnpackCount(fmt, i) ==
    IF i > Len(fmt) THEN 0
    ELSE (IF fmt[i][2] = "s" THEN 1 ELSE fmt[i][1]) + UnpackCount(fmt, i + 1)

\* the names from_bytes assigns the unpacked header to (message.py 106-107)
HeaderTargets ==
    << "op", "htype", "hlen", "hops", "xid", "secs", "flags", "ciaddr",
       "yiaddr", "siaddr", "giaddr", "chaddr", "sname", "file", "_" >>

UnwireIp(a) == IF a = NoIp THEN NoneVal ELSE Str(a)

\* DHCPMessage.from_bytes: unpacking into a different number of names
\* raises ValueError
from_bytes(data) ==
    IF UnpackCount(HEADER_FORMAT, 1) # Len(HeaderTargets)
    THEN [exc |-> "ValueError", msg |-> NoneVal]
    ELSE [exc |-> "none",
          msg |-> DHCPMessage(data.op, data.xid, Str(data.ciaddr),
                              Str(data.yiaddr), data.chaddr, data.option53,
                              UnwireIp(data.option54),
                              UnwireIp(data.option50), data.option51)]

\* handler, with the sweep made after the decode instead of before it: a
\* datagram that does not decode leaves the lease table unswept
handler_DecodeFirst(ls, cfg, t, data) ==
    LET d == from_bytes(data)
        swept == _update_leases(ls, t)
        message == d.msg
        mtype == message.option53
        o == IF mtype = DHCPDISCOVER
             THEN dhcp_discover_handler(swept, cfg, t, message)
             ELSE IF mtype = DHCPREQUEST
             THEN dhcp_request_handler(swept, cfg, t, message)
             ELSE IF mtype = DHCPRELEASE
             THEN dhcp_release_handler(swept, cfg, t, message)
             ELSE IF mtype = DHCPDECLINE
             THEN dhcp_decline_handler(swept, cfg, t, message)
             ELSE Outcome(swept, NoIp, NoneVal, "none", FALSE)
    IN  IF d.exc # "none"
        THEN [out |-> Outcome(ls, NoIp, NoneVal, d.exc, FALSE),
              send |-> NoneVal]
        ELSE IF mtype = NoKey
        THEN [out |-> Outcome(swept, NoIp, NoneVal, "AttributeError", FALSE),
              send |-> NoneVal]
        ELSE IF mtype \in {DHCPRELEASE, DHCPDECLINE}
        THEN [out |-> [o EXCEPT !.ret = NoneVal], send |-> NoneVal]
        ELSE [out |-> [o EXCEPT !.ret = NoneVal],
              send |-> IF o.exc = "none" THEN o.ret ELSE NoneVal]

(***************************************************************************)
(* DHCPServer.handler(data): the sweep, the decode, the dispatch on option *)
(* 53 and the send.  Yields an Outcome and the message sent, if any.       *)
(***************************************************************************)
handler(ls, cfg, t, data) ==
    LET swept == _update_leases(ls, t)
        d == from_bytes(data)
        message == d.msg
        mtype == message.option53
        o == IF mtype = DHCPDISCOVER
             THEN dhcp_discover_handler(swept, cfg, t, message)
             ELSE IF mtype = DHCPREQUEST
             THEN dhcp_request_handler(swept, cfg, t, message)
             ELSE IF mtype = DHCPRELEASE
             THEN dhcp_release_handler(swept, cfg, t, message)
             ELSE IF mtype = DHCPDECLINE
             THEN dhcp_decline_handler(swept, cfg, t, message)
             ELSE Outcome(swept, NoIp, NoneVal, "none", FALSE)
    IN  IF d.exc # "none"
        THEN [out |-> Outcome(swept, NoIp, NoneVal, d.exc, FALSE),
              send |-> NoneVal]
        ELSE IF mtype = NoKey
        THEN \* message.option53 is None: reading .value raises
             [out |-> Outcome(swept, NoIp, NoneVal, "AttributeError", FALSE),
              send |-> NoneVal]
        ELSE IF mtype \in {DHCPRELEASE, DHCPDECLINE}
        THEN [out |-> [o EXCEPT !.ret = NoneVal], send |-> NoneVal]
        ELSE [out |-> [o EXCEPT !.ret = NoneVal],
              send |-> IF o.exc = "none" THEN o.ret ELSE NoneVal]

(***************************************************************************)
(* The messages the model calls the server with.  The addresses a message  *)
(* names are those of the configured range.  Option                        *)
(* 54 names the server's identifier as a string (what from_bytes and the   *)
(* client produce), as an IPv4Address, or another server as a string.      *)
(***************************************************************************)
OtherServer == Ip(10, 0, 0, 30)

NamedIps == config.addr_range[1] .. config.addr_range[2]

Option54Values ==
    { Str(config.identifier.v), IPv4Address(config.identifier.v),
      Str(OtherServer) }

Request(mtype, xid, ciaddr, chaddr, o54, o50) ==
    DHCPMessage(BOOTREQUEST, xid, ciaddr, Str(Ip(0, 0, 0, 0)), chaddr,
                mtype, o54, o50, NoneVal)

DiscoverMessages ==
    { Request(DHCPDISCOVER, x, Str(Ip(0, 0, 0, 0)), c, NoneVal, NoneVal) :
        x \in XIDS, c \in CHADDRS }

RequestMessages ==
    { Request(DHCPREQUEST, a[1], Str(Ip(0, 0, 0, 0)), a[2], a[3], Str(a[4])) :
        a \in XIDS \X CHADDRS \X Option54Values \X NamedIps }

ReleaseMessages ==
    { Request(DHCPRELEASE, a[1], Str(a[4]), a[2], a[3], NoneVal) :
        a \in XIDS \X CHADDRS \X Option54Values \X NamedIps }

DeclineMessages ==
    { Request(DHCPDECLINE, a[1], Str(Ip(0, 0, 0, 0)), a[2], a[3], Str(a[4])) :
        a \in {1} \X CHADDRS \X Option54Values \X NamedIps }

InformMessages ==
    { Request(DHCPINFORM, x, Str(config.addr_range[1]), c, NoneVal, NoneVal) :
        x \in XIDS, c \in CHADDRS }

\* a message without option 53
NoTypeMessages ==
    { DHCPMessage(BOOTREQUEST, 1, Str(Ip(0, 0, 0, 0)), Str(Ip(0, 0, 0, 0)),
                  "AA:00:00:00:00:01", NoKey, NoneVal, NoneVal, NoneVal) }

Datagrams ==
    { pack(m) : m \in { d \in DiscoverMessages \cup RequestMessages
                               \cup ReleaseMessages \cup DeclineMessages
                               \cup InformMessages \cup NoTypeMessages :
                          d.xid = 1 /\ d.option54.t # "IPv4Address" } }

NoCall == [fn |-> "none", arg |-> NoneVal]

(***************************************************************************)
(* options.py: the option classes.  Bytes are sequences of 0..255.  Python *)
(* values an option can hold: NoneVal, an address string Str(a), an        *)
(* IPv4Address(a), a list or tuple of those, an int, and a string that is  *)
(* not an address, kept as the sequence of its character codes.  The       *)
(* integers of the model are below 2^31.                                   *)
(***************************************************************************)
List(items) == [t |-> "list", items |-> items]
PyInt(n) == [t |-> "int", v |-> n]
Text(chars) == [t |-> "str", chars |-> chars]

\* Python truth of a value: None, 0, '' and [] are false
Truthy(value) ==
    IF value = NoneVal THEN FALSE
    ELSE IF value.t = "int" THEN value.v # 0
    ELSE IF value.t = "list" THEN value.items # << >>
    ELSE IF value.t = "str" /\ "chars" \in DOMAIN value
    THEN value.chars # << >>
    ELSE TRUE

\* int.to_bytes(length, byteorder='big') for 0 <= n < 256^length
RECURSIVE to_bytes(_, _)
to_bytes(n, length) ==
    IF length = 0 THEN << >>
    ELSE Append(to_bytes(n \div 256, length - 1), n % 256)

\* whether int.to_bytes(length) succeeds (OverflowError otherwise)
Fits(n, length) ==
    n >= 0 /\ (length >= 4 \/ n < 256 ^ length)

\* int.from_bytes(b, byteorder='big')
RECURSIVE int_from_bytes(_)
int_from_bytes(b) ==
    IF b = << >> THEN 0
    ELSE int_from_bytes(SubSeq(b, 1, Len(b) - 1)) * 256 + b[Len(b)]

\* socket.inet_aton of the dotted string of address a; socket.inet_ntoa
inet_aton(a) == to_bytes(a, 4)
inet_ntoa(b) == Str(int_from_bytes(b))

\* struct's 'Ns' item: the bytes cut or zero-padded to N
FitTo(payload, n) ==
    IF Len(payload) >= n THEN SubSeq(payload, 1, n)
    ELSE payload \o [i \in 1..(n - Len(payload)) |-> 0]

\* character codes: '0'..'9' are 48..57, 'A'..'F' 65..70, 'a'..'f' 97..102
HexVal(c) ==
    IF c \in 48..57 THEN c - 48
    ELSE IF c \in 97..102 THEN c - 87
    ELSE IF c \in 65..70 THEN c - 55
    ELSE 0 - 1

HexChar(n) == IF n < 10 THEN 48 + n ELSE 87 + n

IsHex(chars) ==
    /\ Len(chars) % 2 = 0
    /\ \A i \in 1..Len(chars) : HexVal(chars[i]) >= 0

\* binascii.a2b_hex and binascii.b2a_hex
a2b_hex(chars) ==
    [i \in 1..(Len(chars) \div 2) |->
        16 * HexVal(chars[2 * i - 1]) + HexVal(chars[2 * i])]

b2a_hex(b) ==
    [i \in 1..(2 * Len(b)) |->
        IF i % 2 = 1 THEN HexChar(b[(i + 1) \div 2] \div 16)
        ELSE HexChar(b[i \div 2] % 16)]

\* int(s) of a string of decimal digits, and str(n) of an int n >= 0
IsDecimal(chars) ==
    chars # << >> /\ \A i \in 1..Len(chars) : chars[i] \in 48..57

RECURSIVE ParseInt(_)
ParseInt(chars) ==
    IF chars = << >> THEN 0
    ELSE ParseInt(SubSeq(chars, 1, Len(chars) - 1)) * 10
         + (chars[Len(chars)] - 48)

RECURSIVE Digits(_)
Digits(n) ==
    IF n < 10 THEN <<48 + n>>
    ELSE Append(Digits(n \div 10), 48 + (n % 10))

IsAscii(chars) == \A i \in 1..Len(chars) : chars[i] < 128

\* the class attribute length = None of DHCPOption (a false value, like 0)
NoLength == 0
MIN_VALUE_LEN == 4
MESSAGE_TYPES ==
    { DHCPDISCOVER, DHCPOFFER, DHCPREQUEST, DHCPDECLINE, DHCPACK, DHCPNAK,
      DHCPRELEASE, DHCPINFORM }

\* the classes DHCPMessage.OPTIONS maps a code to: the base class and the
\* class attribute length
OPTIONS ==
    (1 :> [base |-> "_DHCPOptionIP", length |-> 4]) @@
    (3 :> [base |-> "_DHCPOptionIP", length |-> NoLength]) @@
    (6 :> [base |-> "_DHCPOptionIP", length |-> NoLength]) @@
    (12 :> [base |-> "_DHCPOptionStr", length |-> NoLength]) @@
    (15 :> [base |-> "_DHCPOptionStr", length |-> NoLength]) @@
    (50 :> [base |-> "_DHCPOptionIP", length |-> 4]) @@
    (51 :> [base |-> "_DHCPOptionInt", length |-> 4]) @@
    (53 :> [base |-> "_DHCPOptionInt", length |-> 1]) @@
    (54 :> [base |-> "_DHCPOptionIP", length |-> 4]) @@
    (82 :> [base |-> "DHCPOption82", length |-> NoLength])

\* the results of the methods: the exception raised, the instance as the
\* call leaves it, and the bytes returned
Fail(e, self) == [exc |-> e, self |-> self, bytes |-> << >>]
Done(self, b) == [exc |-> "none", self |-> self, bytes |-> b]

\* DHCPOption53.__setattr__ for the key 'value': the exception it raises
Option53_setattr(value) ==
    IF Truthy(value) /\ ~ (value.t = "int" /\ value.v \in MESSAGE_TYPES)
    THEN "ValueError"
    ELSE "none"

\* DHCPOption.__init__(value) of the class with this code; only option 53
\* checks the value
DHCPOption(code, value) ==
    LET self == [code |-> code, value |-> value,
                 length |-> OPTIONS[code].length, _payload |-> << >>]
    IN  IF code = 53 /\ Option53_setattr(value) # "none"
        THEN Fail(Option53_setattr(value), NoneVal)
        ELSE Done(self, << >>)

\* option.value = value on an existing instance
SetValue(self, value) ==
    IF self.code = 53 /\ Option53_setattr(value) # "none"
    THEN Fail(Option53_setattr(value), self)
    ELSE Done([self EXCEPT !.value = value], << >>)

\* DHCPOption.pack
DHCPOption_pack(self) ==
    LET length == IF self.length = NoLength THEN Len(self._payload)
                  ELSE self.length
        packed == [self EXCEPT !.length = length]
    IN  IF length > 255 THEN Fail("struct.error", packed)
        ELSE Done(packed, <<self.code, length>> \o FitTo(self._payload, length))

\* DHCPOption.from_bytes for the class with this code and class attribute
\* length: struct.unpack wants exactly the bytes the format describes
DHCPOption_from_bytes(code, cls_length, bytes_stream) ==
    IF Len(bytes_stream) < 2 THEN Fail("IndexError", NoneVal)
    ELSE IF Len(bytes_stream) # 2 + bytes_stream[2]
    THEN Fail("struct.error", NoneVal)
    ELSE Done([code |-> code, value |-> NoneVal,
               length |-> IF cls_length = NoLength THEN bytes_stream[2]
                          ELSE cls_length,
               _payload |-> SubSeq(bytes_stream, 3, Len(bytes_stream))],
              << >>)

\* b''.join(socket.inet_aton(str(value)) for value in items)
RECURSIVE JoinAddresses(_)
JoinAddresses(items) ==
    IF items = << >> THEN << >>
    ELSE inet_aton(items[1].v) \o JoinAddresses(Tail(items))

\* _DHCPOptionIP.pack: a list or tuple is appended to the payload the
\* instance already has and leaves length alone; one address sets both
_DHCPOptionIP_pack(self) ==
    IF self.value = NoneVal THEN Fail("OSError", self)
    ELSE IF self.value.t = "list"
    THEN DHCPOption_pack([self EXCEPT
             !._payload = @ \o JoinAddresses(self.value.items)])
    ELSE DHCPOption_pack([self EXCEPT
             !.length = MIN_VALUE_LEN,
             !._payload = inet_aton(self.value.v)])

\* _DHCPOptionIP.from_bytes: one address per 4 bytes of instance.length;
\* a single address is not kept as a list
_DHCPOptionIP_from_bytes(code, bytes_stream) ==
    LET b == DHCPOption_from_bytes(code, OPTIONS[code].length, bytes_stream)
        instance == b.self
        n == (instance.length + MIN_VALUE_LEN - 1) \div MIN_VALUE_LEN
        chunk(i) == SubSeq(instance._payload,
                           MIN_VALUE_LEN * (i - 1) + 1,
                           IF MIN_VALUE_LEN * i <= Len(instance._payload)
                           THEN MIN_VALUE_LEN * i
                           ELSE Len(instance._payload))
        values == [i \in 1..n |-> inet_ntoa(chunk(i))]
    IN  IF b.exc # "none" THEN b
        ELSE IF \E i \in 1..n : Len(chunk(i)) # MIN_VALUE_LEN
        THEN Fail("OSError", NoneVal)
        ELSE IF n = 0 THEN Fail("IndexError", NoneVal)
        ELSE Done([instance EXCEPT
                      !.value = IF n > 1 THEN List(values) ELSE values[1]],
                  << >>)

\* _DHCPOptionInt.pack
_DHCPOptionInt_pack(self) ==
    IF self.value = NoneVal \/ self.value.t # "int"
    THEN Fail("AttributeError", self)
    ELSE IF ~ Fits(self.value.v, self.length)
    THEN Fail("OverflowError", self)
    ELSE DHCPOption_pack([self EXCEPT
             !._payload = to_bytes(self.value.v, self.length)])

\* _DHCPOptionInt.from_bytes; assigning the value of an option 53 goes
\* through DHCPOption53.__setattr__
_DHCPOptionInt_from_bytes(code, bytes_stream) ==
    LET b == DHCPOption_from_bytes(code, OPTIONS[code].length, bytes_stream)
    IN  IF b.exc # "none" THEN b
        ELSE SetValue(b.self, PyInt(int_from_bytes(b.self._payload)))

\* _DHCPOptionStr.pack
_DHCPOptionStr_pack(self) ==
    IF self.value = NoneVal \/ "chars" \notin DOMAIN self.value
    THEN Fail("AttributeError", self)
    ELSE IF ~ IsAscii(self.value.chars)
    THEN Fail("UnicodeEncodeError", self)
    ELSE DHCPOption_pack([self EXCEPT !._payload = self.value.chars])

\* _DHCPOptionStr.from_bytes
_DHCPOptionStr_from_bytes(code, bytes_stream) ==
    LET b == DHCPOption_from_bytes(code, OPTIONS[code].length, bytes_stream)
    IN  IF b.exc # "none" THEN b
        ELSE IF ~ IsAscii(b.self._payload)
        THEN Fail("UnicodeDecodeError", NoneVal)
        ELSE Done([b.self EXCEPT !.value = Text(b.self._payload)], << >>)

(***************************************************************************)
(* Option 82.  A sub-option is an instance with the code 1 (circuit id) or *)
(* 2 (remote id) and no class length.  The strings given as sub-option     *)
(* values are made of digits and letters.                                  *)
(***************************************************************************)
CIRCUIT_ID == 1
REMOTE_ID == 2

SubOption(code, value) ==
    [code |-> code, value |-> value, length |-> NoLength, _payload |-> << >>]

\* _DHCPSubOption82CircuitId.pack(encode_ascii)
_DHCPSubOption82CircuitId_pack(self, encode_ascii) ==
    LET value == self.value
        isText == value # NoneVal /\ "chars" \in DOMAIN value
    IN  IF encode_ascii
        THEN \* str(self.value).encode('ascii')
             IF isText
             THEN DHCPOption_pack([self EXCEPT !._payload = value.chars])
             ELSE IF value # NoneVal /\ value.t = "int"
             THEN DHCPOption_pack([self EXCEPT !._payload = Digits(value.v)])
             ELSE DHCPOption_pack([self EXCEPT
                      !._payload = <<78, 111, 110, 101>>])
        ELSE IF value = NoneVal THEN Fail("TypeError", self)
        ELSE IF value.t = "int" \/ (isText /\ IsDecimal(value.chars))
        THEN \* int(self.value).to_bytes(1, byteorder='big')
             LET n == IF value.t = "int" THEN value.v
                      ELSE ParseInt(value.chars)
             IN  IF ~ Fits(n, 1) THEN Fail("OverflowError", self)
                 ELSE DHCPOption_pack([self EXCEPT !._payload = to_bytes(n, 1)])
        ELSE \* int() raised ValueError: binascii.a2b_hex(self.value)
             IF ~ IsHex(value.chars) THEN Fail("binascii.Error", self)
             ELSE DHCPOption_pack([self EXCEPT
                      !._payload = a2b_hex(value.chars)])

\* _DHCPSubOption82CircuitId.from_bytes(bytes_stream, encode_ascii)
_DHCPSubOption82CircuitId_from_bytes(bytes_stream, encode_ascii) ==
    LET b == DHCPOption_from_bytes(CIRCUIT_ID, NoLength, bytes_stream)
    IN  IF b.exc # "none" THEN b
        ELSE IF ~ encode_ascii
        THEN Done([b.self EXCEPT
                      !.value = PyInt(int_from_bytes(b.self._payload))], << >>)
        ELSE IF ~ IsAscii(b.self._payload)
        THEN Fail("UnicodeDecodeError", NoneVal)
        ELSE Done([b.self EXCEPT !.value = Text(b.self._payload)], << >>)

\* _DHCPSubOption82RemoteId.pack(encode_ascii)
_DHCPSubOption82RemoteId_pack(self, encode_ascii) ==
    LET value == self.value
        isText == value # NoneVal /\ "chars" \in DOMAIN value
    IN  IF ~ isText
        THEN Fail(IF encode_ascii THEN "AttributeError" ELSE "TypeError", self)
        ELSE IF encode_ascii
        THEN DHCPOption_pack([self EXCEPT !._payload = value.chars])
        ELSE IF ~ IsHex(value.chars) THEN Fail("binascii.Error", self)
        ELSE DHCPOption_pack([self EXCEPT !._payload = a2b_hex(value.chars)])

\* _DHCPSubOption82RemoteId.from_bytes(bytes_stream, encode_ascii)
_DHCPSubOption82RemoteId_from_bytes(bytes_stream, encode_ascii) ==
    LET b == DHCPOption_from_bytes(REMOTE_ID, NoLength, bytes_stream)
    IN  IF b.exc # "none" THEN b
        ELSE IF ~ encode_ascii
        THEN Done([b.self EXCEPT !.value = Text(b2a_hex(b.self._payload))],
                  << >>)
        ELSE IF ~ IsAscii(b.self._payload)
        THEN Fail("UnicodeDecodeError", NoneVal)
        ELSE Done([b.self EXCEPT !.value = Text(b.self._payload)], << >>)

\* DHCPOption82._get_option_instance: a false value is kept as it is
_get_option_instance(code, value) ==
    IF ~ Truthy(value) THEN value ELSE SubOption(code, value)

\* DHCPOption82.__init__(circuit_id, remote_id).  own_encode_ascii is the
\* instance attribute encode_ascii: "unset" while only the class has one
DHCPOption82(circuit_id, remote_id) ==
    [code |-> 82, value |-> NoneVal, length |-> NoLength, _payload |-> << >>,
     circuit_id |-> _get_option_instance(CIRCUIT_ID, circuit_id),
     remote_id |-> _get_option_instance(REMOTE_ID, remote_id),
     own_encode_ascii |-> "unset"]

\* self.encode_ascii, read on an instance; cls_encode_ascii is the class
\* attribute DHCPOption82.encode_ascii
EncodeAscii(self, cls_encode_ascii) ==
    IF self.own_encode_ascii = "unset" THEN cls_encode_ascii
    ELSE self.own_encode_ascii = "True"

IsInstance(x) == "code" \in DOMAIN x

\* DHCPOption82.pack
DHCPOption82_pack(self, cls_encode_ascii) ==
    LET encode_ascii == EncodeAscii(self, cls_encode_ascii)
        c == _DHCPSubOption82CircuitId_pack(self.circuit_id, encode_ascii)
        withC == [self EXCEPT !.circuit_id = c.self]
        r == _DHCPSubOption82RemoteId_pack(self.remote_id, encode_ascii)
        withR == [withC EXCEPT !.remote_id = r.self]
    IN  IF ~ IsInstance(self.circuit_id) THEN Fail("AttributeError", self)
        ELSE IF c.exc # "none" THEN Fail(c.exc, withC)
        ELSE IF ~ IsInstance(self.remote_id)
        THEN Fail("AttributeError", withC)
        ELSE IF r.exc # "none" THEN Fail(r.exc, withR)
        ELSE DHCPOption_pack([withR EXCEPT !._payload = c.bytes \o r.bytes])

\* the loop of DHCPOption82.from_bytes: `left` iterations from `index`
\* (counted from 0) of the payload
RECURSIVE ParseSubOptions(_, _, _, _)
ParseSubOptions(instance, index, left, encode_ascii) ==
    IF left = 0 THEN Done(instance, << >>)
    ELSE
    LET payload == instance._payload
        payload_start_index == index + 2
    IN  IF Len(payload) < payload_start_index
        THEN Fail("struct.error", NoneVal)
        ELSE
        LET sub_option_code == payload[index + 1]
            sub_option_length == payload[index + 2]
            stop == IF payload_start_index + sub_option_length <= Len(payload)
                    THEN payload_start_index + sub_option_length
                    ELSE Len(payload)
            slice == SubSeq(payload, index + 1, stop)
            sub_option ==
                IF sub_option_code = CIRCUIT_ID
                THEN _DHCPSubOption82CircuitId_from_bytes(slice, encode_ascii)
                ELSE _DHCPSubOption82RemoteId_from_bytes(slice, encode_ascii)
            next == payload_start_index + sub_option_length
        IN  IF sub_option_code \notin {CIRCUIT_ID, REMOTE_ID}
            THEN ParseSubOptions(instance, next, left - 1, encode_ascii)
            ELSE IF sub_option.exc # "none" THEN Fail(sub_option.exc, NoneVal)
            ELSE ParseSubOptions(
                     IF sub_option_code = CIRCUIT_ID
                     THEN [instance EXCEPT !.circuit_id = sub_option.self]
                     ELSE [instance EXCEPT !.remote_id = sub_option.self],
                     next, left - 1, encode_ascii)

\* DHCPOption82.from_bytes: the mode is that of the class
DHCPOption82_from_bytes(bytes_stream, cls_encode_ascii) ==
    LET b == DHCPOption_from_bytes(82, NoLength, bytes_stream)
        instance == [DHCPOption82(NoneVal, NoneVal) EXCEPT
                        !.length = b.self.length,
                        !._payload = b.self._payload]
    IN  IF b.exc # "none" THEN b
        ELSE ParseSubOptions(instance, 0, 2, cls_encode_ascii)

\* option.pack() and option_class.from_bytes(bytes_stream) by class
OptionPack(self, cls_encode_ascii) ==
    LET base == OPTIONS[self.code].base
    IN  IF base = "_DHCPOptionIP" THEN _DHCPOptionIP_pack(self)
        ELSE IF base = "_DHCPOptionInt" THEN _DHCPOptionInt_pack(self)
        ELSE IF base = "_DHCPOptionStr" THEN _DHCPOptionStr_pack(self)
        ELSE DHCPOption82_pack(self, cls_encode_ascii)

OptionFromBytes(code, bytes_stream, cls_encode_ascii) ==
    LET base == OPTIONS[code].base
    IN  IF base = "_DHCPOptionIP"
        THEN _DHCPOptionIP_from_bytes(code, bytes_stream)
        ELSE IF base = "_DHCPOptionInt"
        THEN _DHCPOptionInt_from_bytes(code, bytes_stream)
        ELSE IF base = "_DHCPOptionStr"
        THEN _DHCPOptionStr_from_bytes(code, bytes_stream)
        ELSE DHCPOption82_from_bytes(bytes_stream, cls_encode_ascii)

\* what a caller reads as the value of an option: .value, and for option
\* 82 the values of its two sub-options
ValueOf(self) ==
    IF self.code # 82 THEN <<self.value>>
    ELSE << IF IsInstance(self.circuit_id) THEN self.circuit_id.value
            ELSE self.circuit_id,
            IF IsInstance(self.remote_id) THEN self.remote_id.value
            ELSE self.remote_id >>

(***************************************************************************)
(* A program that uses the option and message classes directly.            *)
(*   encode_ascii  the class attribute DHCPOption82.encode_ascii           *)
(*   opt        the option object the program holds (NoneVal: none)        *)
(*   opt_pc     "none"; "built" after the constructor or an assignment to  *)
(*              .value, "raised" if the constructor raised; "packed" after *)
(*              pack(), "failed" if it raised; "decoded" after from_bytes  *)
(*              of the bytes pack() returned; "received" after from_bytes  *)
(*              of bytes from elsewhere                                    *)
(*   opt_arg    the class (by its code) and the value last given to the    *)
(*              constructor or assigned                                    *)
(*   opt_packs  how often pack() was called on opt                         *)
(*   opt_bytes  what the last pack() returned, or the bytes received       *)
(*   opt_dec    the option object from_bytes returned (NoneVal: none)      *)
(*   opt_exc    the exception the last operation raised                    *)
(*   msg_base   the message object the program holds (NoneVal: none)       *)
(*   msg_pc     "none", "built", "packed", "failed" (pack() raised),       *)
(*              "decoded", "copied"                                        *)
(*   msg_data   what msg_base.pack() returned                              *)
(*   msg_kwargs the keyword arguments of the last from_message             *)
(*   msg_out    what the last pack, from_bytes or from_message returned or *)
(*              raised                                                     *)
(*   msg_xid_arg  the xid argument msg_base was constructed with (NoneVal  *)
(*              when it was left out)                                      *)
(***************************************************************************)
VARIABLES encode_ascii, opt, opt_pc, opt_arg, opt_packs, opt_bytes, opt_dec,
          opt_exc, msg_base, msg_pc, msg_data, msg_kwargs, msg_out,
          msg_xid_arg

kvars == <<encode_ascii, opt, opt_pc, opt_arg, opt_packs, opt_bytes, opt_dec,
           opt_exc, msg_base, msg_pc, msg_data, msg_kwargs, msg_out,
           msg_xid_arg>>

\* the values the program gives to options of each class
IPValues ==
    { Str(Ip(10, 0, 0, 1)), IPv4Address(Ip(10, 0, 0, 1)),
      List(<<Str(Ip(8, 8, 8, 8))>>),
      List(<<Str(Ip(8, 8, 8, 8)), Str(Ip(1, 1, 1, 1))>>) }

IntValues == { PyInt(n) : n \in 0..9 } \cup { PyInt(3600) }

\* '', 'host' and a string with a character that is not ASCII
StrValues ==
    { Text(<< >>), Text(<<104, 111, 115, 116>>), Text(<<104, 233>>) }

\* 5, 0, 256, '5', '0a', 'eth0'
CircuitIdValues ==
    { PyInt(5), PyInt(0), PyInt(256), Text(<<53>>), Text(<<48, 97>>),
      Text(<<101, 116, 104, 48>>) }

\* 'aabb', 'AABB', 'host'
RemoteIdValues ==
    { Text(<<97, 97, 98, 98>>), Text(<<65, 65, 66, 66>>),
      Text(<<104, 111, 115, 116>>) }

ValuesFor(code) ==
    LET base == OPTIONS[code].base
    IN  IF base = "_DHCPOptionIP" THEN IPValues
        ELSE IF base = "_DHCPOptionInt"
        THEN (IF code = 53 THEN IntValues \cup {NoneVal} ELSE IntValues)
        ELSE IF base = "_DHCPOptionStr" THEN StrValues
        ELSE {}

\* encoded options that arrive from elsewhere: option 53 with the values
\* 0, 3 and 9, option 6 with one address and option 53 cut short
ReceivedOptions ==
    { <<53, 1, 0>>, <<53, 1, 3>>, <<53, 1, 9>>, <<6, 4, 8, 8, 8, 8>>,
      <<53, 1>> }

(***************************************************************************)
(* client.py: DHCPClient.  The client is built with the default mac and no *)
(* options.                                                                *)
(*   c_repeat   repeat_count                                               *)
(*   c_pc       "idle": no call in progress; "waiting": blocked in         *)
(*              received_data(); "done": the call returned or raised       *)
(*   c_entry    the method that was called                                 *)
(*   c_phase    the method _send_dhcp_message is running for               *)
(*   c_attempt  completed iterations of the loop of _send_dhcp_message     *)
(*   c_msg      the message _send_dhcp_message is sending                  *)
(*   c_sent     the datagrams this call handed to send_data, oldest first  *)
(*   c_xid      self._xid (NoKey for None)                                 *)
(*   c_server_identifier  the value of self._server_identifier             *)
(*   c_result   how the call ended                                         *)
(*   c_replies  the datagrams this call received, oldest first (history)   *)
(***************************************************************************)
VARIABLES c_repeat, c_pc, c_entry, c_phase, c_attempt, c_msg, c_sent, c_xid,
          c_server_identifier, c_result, c_replies

cvars == <<c_repeat, c_pc, c_entry, c_phase, c_attempt, c_msg, c_sent, c_xid,
           c_server_identifier, c_result, c_replies>>

vars == <<svars, cvars, kvars>>

ClientMac == "aa:00:00:00:00:01"
Pending == [kind |-> "pending", value |-> NoneVal, exc |-> "none"]
Returned(v) == [kind |-> "returned", value |-> v, exc |-> "none"]
Raised(e) == [kind |-> "raised", value |-> NoneVal, exc |-> e]

\* the servers and offered addresses of the replies a client may receive
ServerA == Ip(10, 0, 0, 1)
ServerB == Ip(10, 0, 0, 30)
Offered == Ip(10, 0, 0, 2)

ReplyMessages ==
    { DHCPMessage(BOOTREPLY, a[1], Str(Ip(0, 0, 0, 0)), Str(Offered),
                  ClientMac, a[2], Str(a[3]), NoneVal, 90) :
        a \in XIDS \X {DHCPOFFER, DHCPACK, DHCPNAK} \X {ServerA, ServerB} }

ReplyDatagrams == { pack(m) : m \in ReplyMessages }

\* the offers send_dhcp_request is called with directly
OfferMessages == { m \in ReplyMessages : m.option53 = DHCPOFFER }

\* DHCPClient._get_request_message with the options the phase appends
DiscoverMessage(xid) ==
    DHCPMessage(BOOTREQUEST, xid, Str(Ip(0, 0, 0, 0)), Str(Ip(0, 0, 0, 0)),
                ClientMac, DHCPDISCOVER, NoneVal, NoneVal, NoneVal)

RequestMessage(xid, offer_message) ==
    DHCPMessage(BOOTREQUEST, xid, Str(Ip(0, 0, 0, 0)), Str(Ip(0, 0, 0, 0)),
                ClientMac, DHCPREQUEST, offer_message.option54,
                offer_message.yiaddr, NoneVal)

\* MoreAttempts, off by one
MoreAttempts_OffByOne(repeat_count, done) == done <= repeat_count

\* range(self._repeat_count): is there an iteration after `done` of them
MoreAttempts(repeat_count, done) == done < repeat_count

(***************************************************************************)
(* What the caller of _send_dhcp_message does with its result r (a decoded *)
(* message or NoneVal): the rest of send_dhcp_discover (client.py 47-51)   *)
(* and of send_dhcp_request (client.py 64-68).  Reading .xid of None       *)
(* raises AttributeError.                                                  *)
(***************************************************************************)
DiscoverResult(r, xid) ==
    IF r = NoneVal THEN Raised("AttributeError")
    ELSE IF r.xid # xid THEN Returned(NoneVal)
    ELSE IF r.option53 # DHCPOFFER THEN Returned(NoneVal)
    ELSE Returned(r)

RequestResult(r, xid, server_identifier) ==
    IF r = NoneVal THEN Raised("AttributeError")
    ELSE IF r.xid # xid THEN Returned(NoneVal)
    ELSE IF r.option54 = NoneVal THEN Raised("AttributeError")
    ELSE IF PyNe(r.option54, server_identifier) THEN Returned(NoneVal)
    ELSE Returned(r)

ClientInit ==
    /\ c_repeat \in 1..MaxRepeat
    /\ c_pc = "idle"
    /\ c_entry = "none"
    /\ c_phase = "none"
    /\ c_attempt = 0
    /\ c_msg = NoneVal
    /\ c_sent = << >>
    /\ c_xid = NoKey
    /\ c_server_identifier = NoneVal
    /\ c_result = Pending
    /\ c_replies = << >>

(***************************************************************************)
(* _send_dhcp_message(message) up to its first received_data(): with no    *)
(* iteration to run it returns None at once and the phase ends with        *)
(* PhaseEnd; else it sends and waits.                                      *)
(***************************************************************************)
\* the phase `phase` got r from _send_dhcp_message, or from_bytes raised e
PhaseEnd(entry, phase, r, e, xid, server_identifier, sofar) ==
    LET res == IF e # "none" THEN Raised(e)
               ELSE IF phase = "send_dhcp_discover"
               THEN DiscoverResult(r, xid)
               ELSE RequestResult(r, xid, server_identifier)
    IN  IF entry = "start" /\ phase = "send_dhcp_discover"
           /\ res.kind = "returned" /\ res.value # NoneVal
        THEN \* start() goes on with send_dhcp_request(offer_message)
             LET message == RequestMessage(xid, res.value)
             IN  /\ c_server_identifier' = res.value.option54
                 /\ c_phase' = "send_dhcp_request"
                 /\ c_msg' = message
                 /\ c_attempt' = 0
                 /\ IF MoreAttempts(c_repeat, 0)
                    THEN /\ c_sent' = Append(sofar, pack(message))
                         /\ c_pc' = "waiting"
                         /\ c_result' = Pending
                    ELSE /\ c_sent' = sofar
                         /\ c_pc' = "done"
                         /\ c_result' =
                              RequestResult(NoneVal, xid, res.value.option54)
        ELSE /\ c_pc' = "done"
             /\ c_result' = res
             /\ c_sent' = sofar
             /\ UNCHANGED <<c_server_identifier, c_phase, c_msg, c_attempt>>

\* a phase begins: the message is built and _send_dhcp_message is entered
PhaseBegin(entry, phase, message, xid, server_identifier) ==
    /\ c_entry' = entry
    /\ c_xid' = xid
    /\ c_replies' = << >>
    /\ IF MoreAttempts(c_repeat, 0)
       THEN /\ c_sent' = <<pack(message)>>
            /\ c_pc' = "waiting"
            /\ c_phase' = phase
            /\ c_msg' = message
            /\ c_attempt' = 0
            /\ c_server_identifier' = server_identifier
            /\ c_result' = Pending
       ELSE /\ c_phase' = phase
            /\ c_msg' = message
            /\ c_attempt' = 0
            /\ c_server_identifier' = server_identifier
            /\ c_pc' = "done"
            /\ c_sent' = << >>
            /\ c_result' = IF phase = "send_dhcp_discover"
                           THEN DiscoverResult(NoneVal, xid)
                           ELSE RequestResult(NoneVal, xid, server_identifier)

\* DHCPClient.start() is called: send_dhcp_discover with a fresh xid
ClientStart ==
    \E xid \in XIDS :
        /\ c_pc = "idle"
        /\ PhaseBegin("start", "send_dhcp_discover", DiscoverMessage(xid),
                      xid, c_server_identifier)
        /\ UNCHANGED <<c_repeat, svars, kvars>>

\* DHCPClient.send_dhcp_discover() is called
ClientDiscover ==
    \E xid \in XIDS :
        /\ c_pc = "idle"
        /\ PhaseBegin("send_dhcp_discover", "send_dhcp_discover",
                      DiscoverMessage(xid), xid, c_server_identifier)
        /\ UNCHANGED <<c_repeat, svars, kvars>>

\* DHCPClient.send_dhcp_request(offer_message) is called; with self._xid
\* None the message gets a random xid and self._xid stays None
ClientRequest ==
    \E offer_message \in OfferMessages :
        \E xid \in (IF c_xid = NoKey THEN XIDS ELSE {c_xid}) :
            /\ c_pc = "idle"
            /\ PhaseBegin("send_dhcp_request", "send_dhcp_request",
                          RequestMessage(xid, offer_message), c_xid,
                          offer_message.option54)
            /\ UNCHANGED <<c_repeat, svars, kvars>>

\* received_data() raises socket.timeout: the next iteration, or the end
\* of the loop
RecvTimeout ==
    /\ c_pc = "waiting"
    /\ c_replies' = c_replies
    /\ IF MoreAttempts(c_repeat, c_attempt + 1)
       THEN /\ c_attempt' = c_attempt + 1
            /\ c_sent' = Append(c_sent, pack(c_msg))
            /\ UNCHANGED <<c_pc, c_entry, c_phase, c_msg, c_xid,
                           c_server_identifier, c_result>>
       ELSE /\ c_attempt' = c_attempt + 1
            /\ c_pc' = "done"
            /\ c_result' = IF c_phase = "send_dhcp_discover"
                           THEN DiscoverResult(NoneVal, c_xid)
                           ELSE RequestResult(NoneVal, c_xid,
                                              c_server_identifier)
            /\ UNCHANGED <<c_entry, c_phase, c_msg, c_sent, c_xid,
                           c_server_identifier>>
    /\ UNCHANGED <<c_repeat, svars, kvars>>

\* received_data() returns a datagram: the loop breaks and the datagram is
\* decoded
RecvReply ==
    \E payload \in ReplyDatagrams :
        LET d == from_bytes(payload)
        IN  /\ c_pc = "waiting"
            /\ c_replies' = Append(c_replies, payload)
            /\ PhaseEnd(c_entry, c_phase, d.msg, d.exc, c_xid,
                        c_server_identifier, c_sent)
            /\ UNCHANGED <<c_repeat, c_entry, c_xid, svars, kvars>>

\* the caller has the result; the client object may be called again
ClientReturn ==
    /\ c_pc = "done"
    /\ c_pc' = "idle"
    /\ c_entry' = "none"
    /\ c_phase' = "none"
    /\ c_attempt' = 0
    /\ c_msg' = NoneVal
    /\ c_sent' = << >>
    /\ c_result' = Pending
    /\ c_replies' = << >>
    /\ UNCHANGED <<c_repeat, c_xid, c_server_identifier, svars, kvars>>

ClientNext ==
    \/ ClientStart
    \/ ClientDiscover
    \/ ClientRequest
    \/ RecvTimeout
    \/ RecvReply
    \/ ClientReturn

(***************************************************************************)
(* DHCPServer.__init__ on a configuration whose construction succeeded.    *)
(***************************************************************************)
ServerInit ==
    /\ config \in ValidConfigs
    /\ leases = << >>
    /\ now = 0
    /\ call = NoCall
    /\ yiaddr = NoIp
    /\ ret = NoneVal
    /\ exc = "none"
    /\ sent = << >>
    /\ declined = {}
    /\ offers = << >>

\* a call of a handler method with a message object: its Outcome o
Called(fn, message, o) ==
    /\ call = NoCall
    /\ leases' = o.leases
    /\ call' = [fn |-> fn, arg |-> message]
    /\ yiaddr' = o.yiaddr
    /\ ret' = o.ret
    /\ exc' = o.exc
    /\ UNCHANGED <<config, now, cvars, kvars>>

\* offers after a call with Outcome o for hardware address chaddr that
\* released the address `released` if o.accepted
Offers(o, chaddr, released) ==
    IF o.yiaddr # NoIp
    THEN (o.yiaddr :> [chaddr |-> chaddr, at |-> now]) @@ offers
    ELSE IF o.accepted
    THEN [ip \in DOMAIN offers \ {released} |-> offers[ip]]
    ELSE offers

DiscoverCall ==
    \E m \in DiscoverMessages :
        LET o == dhcp_discover_handler(leases, config, now, m)
        IN  /\ Called("dhcp_discover_handler", m, o)
            /\ offers' = Offers(o, m.chaddr, NoIp)
            /\ UNCHANGED <<sent, declined>>

RequestCall ==
    \E m \in RequestMessages :
        /\ Called("dhcp_request_handler", m,
                  dhcp_request_handler(leases, config, now, m))
        /\ UNCHANGED <<sent, declined, offers>>

ReleaseCall ==
    \E m \in ReleaseMessages :
        LET o == dhcp_release_handler(leases, config, now, m)
        IN  /\ Called("dhcp_release_handler", m, o)
            /\ declined' = IF o.accepted
                           THEN declined \ {m.ciaddr.v} ELSE declined
            /\ offers' = Offers(o, m.chaddr, m.ciaddr.v)
            /\ UNCHANGED sent

DeclineCall ==
    \E m \in DeclineMessages :
        LET o == dhcp_decline_handler(leases, config, now, m)
        IN  /\ Called("dhcp_decline_handler", m, o)
            /\ declined' = IF o.accepted
                           THEN declined \cup {m.option50.v} ELSE declined
            /\ UNCHANGED <<sent, offers>>

\* the receive loop hands a datagram to DHCPServer.handler
HandlerCall ==
    \E data \in Datagrams :
        LET h == handler(leases, config, now, data)
        IN  /\ Called("handler", data, h.out)
            /\ sent' = IF h.send = NoneVal THEN sent
                       ELSE Append(sent, pack(h.send))
            /\ declined' =
                 IF ~ h.out.accepted THEN declined
                 ELSE IF data.option53 = DHCPDECLINE
                 THEN declined \cup {data.option50}
                 ELSE IF data.option53 = DHCPRELEASE
                 THEN declined \ {data.ciaddr}
                 ELSE declined
            /\ offers' =
                 IF data.option53 \in {DHCPDISCOVER, DHCPRELEASE}
                 THEN Offers(h.out, data.chaddr, data.ciaddr)
                 ELSE offers

\* DHCPServer._update_leases called on its own
SweepCall ==
    /\ call = NoCall
    /\ leases' = _update_leases(leases, now)
    /\ call' = [fn |-> "_update_leases", arg |-> NoneVal]
    /\ yiaddr' = NoIp
    /\ ret' = NoneVal
    /\ exc' = "none"
    /\ UNCHANGED <<config, now, sent, declined, offers, cvars, kvars>>

\* the caller takes the result of the call
Return ==
    /\ call # NoCall
    /\ call' = NoCall
    /\ yiaddr' = NoIp
    /\ ret' = NoneVal
    /\ exc' = "none"
    /\ UNCHANGED <<config, leases, now, sent, declined, offers, cvars,
                   kvars>>

\* time passes between calls
Tick ==
    \E d \in Ticks :
        /\ call = NoCall
        /\ now + d <= MaxNow
        /\ now' = now + d
        /\ offers' = [ip \in { i \in DOMAIN offers :
                                  now + d - offers[i].at < OFFER_HOLD } |->
                         offers[ip]]
        /\ UNCHANGED <<config, leases, call, yiaddr, ret, exc, sent, declined,
                       cvars, kvars>>

ServerNext ==
    \/ DiscoverCall
    \/ RequestCall
    \/ ReleaseCall
    \/ DeclineCall
    \/ HandlerCall
    \/ SweepCall
    \/ Return
    \/ Tick

(***************************************************************************)
(* The program that uses the option and message classes: its steps.        *)
(***************************************************************************)
(***************************************************************************)
(* Integers of 32 bits and more.  The xid that random.randint returns can  *)
(* reach 2^32; such an int is kept as its two halves, being the number     *)
(* hi * 2^16 + lo with lo in 0..2^16-1.                                    *)
(***************************************************************************)
Wide(hi, lo) == [t |-> "int", hi |-> hi, lo |-> lo]

WideLe(a, b) == a.hi < b.hi \/ (a.hi = b.hi /\ a.lo <= b.lo)

\* message.py 10: MAX_UINT = 1 << 32
MAX_UINT == Wide(2 ^ 16, 0)

\* values of the range of a 32-bit field and around its upper end: 1,
\* 2^16 - 1, 2^16, 2^31, 2^32 - 1, 2^32 and 2^32 + 1
RandomSamples ==
    { Wide(0, 1), Wide(0, 2 ^ 16 - 1), Wide(1, 0), Wide(2 ^ 15, 0),
      Wide(2 ^ 16 - 1, 2 ^ 16 - 1), Wide(2 ^ 16, 0), Wide(2 ^ 16, 1) }

\* random.randint(a, b): any integer N with a <= N <= b
randint(a, b) == { n \in RandomSamples : WideLe(a, n) /\ WideLe(n, b) }

\* struct's 'I' item takes 0 <= number <= 2^32 - 1
FitsFormatI(n) == n.hi >= 0 /\ n.hi < 2 ^ 16

\* the messages the program builds
BuiltMessages ==
    DiscoverMessages \cup InformMessages \cup ReplyMessages

\* the keyword arguments the program calls from_message with: those of the
\* server's two calls
CopyKwargs ==
    { [op |-> BOOTREPLY, yiaddr |-> Str(Offered),
       options |-> ReplyOptions(config, t)] : t \in {DHCPOFFER, DHCPACK} }

\* message.__dict__.update(kwargs): 'options' is a new key beside '_options'
dict_update(message, kwargs) ==
    [op |-> kwargs.op, yiaddr |-> kwargs.yiaddr, options |-> kwargs.options]
        @@ message

CodecInit ==
    /\ encode_ascii = FALSE
    /\ opt = NoneVal
    /\ opt_pc = "none"
    /\ opt_arg = NoneVal
    /\ opt_packs = 0
    /\ opt_bytes = << >>
    /\ opt_dec = NoneVal
    /\ opt_exc = "none"
    /\ msg_base = NoneVal
    /\ msg_pc = "none"
    /\ msg_data = NoneVal
    /\ msg_kwargs = NoneVal
    /\ msg_out = NoneVal
    /\ msg_xid_arg = NoneVal

msgvars == <<msg_base, msg_pc, msg_data, msg_kwargs, msg_out, msg_xid_arg>>
optvars == <<opt, opt_pc, opt_arg, opt_packs, opt_bytes, opt_dec, opt_exc>>

\* DHCPOption82.encode_ascii = not DHCPOption82.encode_ascii
SetClassEncodeAscii ==
    /\ opt_pc = "none" /\ msg_pc = "none"
    /\ encode_ascii' = ~ encode_ascii
    /\ UNCHANGED <<optvars, msgvars, svars, cvars>>

\* opt = DHCPOptionNN(value)
NewOption ==
    \E code \in DOMAIN OPTIONS \ {82} :
        \E value \in ValuesFor(code) :
            LET r == DHCPOption(code, value)
            IN  /\ opt_pc = "none" /\ msg_pc = "none"
                /\ opt' = r.self
                /\ opt_arg' = [code |-> code, value |-> value]
                /\ opt_exc' = r.exc
                /\ opt_pc' = IF r.exc = "none" THEN "built" ELSE "raised"
                /\ UNCHANGED <<opt_packs, opt_bytes, opt_dec, encode_ascii,
                               msgvars, svars, cvars>>

\* opt = DHCPOption82(circuit_id, remote_id)
NewOption82 ==
    \E circuit_id \in CircuitIdValues :
        \E remote_id \in RemoteIdValues :
            /\ opt_pc = "none" /\ msg_pc = "none"
            /\ opt' = DHCPOption82(circuit_id, remote_id)
            /\ opt_arg' = [code |-> 82,
                            value |-> List(<<circuit_id, remote_id>>)]
            /\ opt_exc' = "none"
            /\ opt_pc' = "built"
            /\ UNCHANGED <<opt_packs, opt_bytes, opt_dec, encode_ascii,
                           msgvars, svars, cvars>>

\* opt.encode_ascii = True on an option 82
SetOwnEncodeAscii ==
    /\ opt_pc = "built"
    /\ opt.code = 82
    /\ opt.own_encode_ascii = "unset"
    /\ opt' = [opt EXCEPT !.own_encode_ascii = "True"]
    /\ UNCHANGED <<opt_pc, opt_arg, opt_packs, opt_bytes, opt_dec, opt_exc,
                   encode_ascii, msgvars, svars, cvars>>

\* opt.value = value
AssignValue ==
    /\ opt_pc \in {"built", "packed", "failed"}
    /\ \E value \in ValuesFor(opt.code) :
           LET r == SetValue(opt, value)
           IN  /\ opt' = r.self
               /\ opt_arg' = [code |-> opt.code, value |-> value]
               /\ opt_exc' = r.exc
               /\ opt_pc' = "built"
    /\ UNCHANGED <<opt_packs, opt_bytes, opt_dec, encode_ascii, msgvars,
                   svars, cvars>>

\* opt.pack()
PackOption ==
    LET r == OptionPack(opt, encode_ascii)
    IN  /\ opt_pc \in {"built", "packed", "failed"}
        /\ opt_packs < MaxPack
        /\ opt' = r.self
        /\ opt_bytes' = r.bytes
        /\ opt_exc' = r.exc
        /\ opt_packs' = opt_packs + 1
        /\ opt_pc' = IF r.exc = "none" THEN "packed" ELSE "failed"
        /\ UNCHANGED <<opt_arg, opt_dec, encode_ascii, msgvars, svars, cvars>>

\* type(opt).from_bytes of the bytes opt.pack() returned
DecodeOption ==
    LET r == OptionFromBytes(opt.code, opt_bytes, encode_ascii)
    IN  /\ opt_pc = "packed"
        /\ opt_dec' = r.self
        /\ opt_exc' = r.exc
        /\ opt_pc' = "decoded"
        /\ UNCHANGED <<opt, opt_arg, opt_packs, opt_bytes, encode_ascii,
                       msgvars, svars, cvars>>

\* the class of the code in the bytes decodes an option from elsewhere
ReceiveOption ==
    \E bytes_stream \in ReceivedOptions :
        LET r == OptionFromBytes(bytes_stream[1], bytes_stream, encode_ascii)
        IN  /\ opt_pc = "none" /\ msg_pc = "none"
            /\ opt_bytes' = bytes_stream
            /\ opt_dec' = r.self
            /\ opt_exc' = r.exc
            /\ opt_pc' = "received"
            /\ UNCHANGED <<opt, opt_arg, opt_packs, encode_ascii, msgvars,
                           svars, cvars>>

\* the program lets go of its option objects
DropOption ==
    /\ opt_pc # "none"
    /\ opt' = NoneVal
    /\ opt_pc' = "none"
    /\ opt_arg' = NoneVal
    /\ opt_packs' = 0
    /\ opt_bytes' = << >>
    /\ opt_dec' = NoneVal
    /\ opt_exc' = "none"
    /\ UNCHANGED <<encode_ascii, msgvars, svars, cvars>>

\* msg_base = DHCPMessage(..., xid=m.xid, ...)
BuildMessage ==
    \E m \in BuiltMessages :
        /\ opt_pc = "none" /\ msg_pc = "none"
        /\ msg_base' = m
        /\ msg_xid_arg' = PyInt(m.xid)
        /\ msg_pc' = "built"
        /\ UNCHANGED <<msg_data, msg_kwargs, msg_out, optvars, encode_ascii,
                       svars, cvars>>

\* msg_base = DHCPMessage(...) without xid, or with xid=0: the xid is what
\* randint returns
BuildMessageRandomXid ==
    \E xid \in {NoneVal, PyInt(0)} :
        \E r \in randint(Wide(0, 1), MAX_UINT) :
            /\ opt_pc = "none" /\ msg_pc = "none"
            /\ ~ Truthy(xid)
            /\ msg_base' = DHCPMessage(BOOTREQUEST, r, Str(Ip(0, 0, 0, 0)),
                                       Str(Ip(0, 0, 0, 0)), ClientMac,
                                       DHCPDISCOVER, NoneVal, NoneVal,
                                       NoneVal)
            /\ msg_xid_arg' = xid
            /\ msg_pc' = "built"
            /\ UNCHANGED <<msg_data, msg_kwargs, msg_out, optvars,
                           encode_ascii, svars, cvars>>

\* msg_base.pack(): struct.pack raises struct.error for an xid that its
\* 'I' item cannot hold
PackMessage ==
    LET xid == IF Truthy(msg_xid_arg) THEN Wide(0, msg_base.xid)
               ELSE msg_base.xid
    IN  /\ msg_pc = "built"
        /\ IF FitsFormatI(xid)
           THEN /\ msg_data' = pack(msg_base)
                /\ msg_pc' = "packed"
                /\ msg_out' = msg_out
           ELSE /\ msg_data' = msg_data
                /\ msg_pc' = "failed"
                /\ msg_out' = [exc |-> "struct.error", msg |-> NoneVal]
        /\ UNCHANGED <<msg_base, msg_kwargs, msg_xid_arg, optvars,
                       encode_ascii, svars, cvars>>

\* DHCPMessage.from_bytes of the bytes msg_base.pack() returned
DecodeMessage ==
    /\ msg_pc = "packed"
    /\ msg_out' = from_bytes(msg_data)
    /\ msg_pc' = "decoded"
    /\ UNCHANGED <<msg_base, msg_data, msg_kwargs, msg_xid_arg, optvars,
                   encode_ascii, svars, cvars>>

\* DHCPMessage.from_message(msg_base, op=, yiaddr=, options=)
CopyMessage ==
    \E kwargs \in CopyKwargs :
        /\ msg_pc = "built"
        /\ msg_kwargs' = kwargs
        /\ msg_out' = from_message(msg_base, kwargs)
        /\ msg_base' = dict_update(msg_base, kwargs)
        /\ msg_pc' = "copied"
        /\ UNCHANGED <<msg_data, msg_xid_arg, optvars, encode_ascii, svars,
                       cvars>>

\* the program lets go of its message objects
DropMessage ==
    /\ msg_pc # "none"
    /\ msg_base' = NoneVal
    /\ msg_pc' = "none"
    /\ msg_data' = NoneVal
    /\ msg_kwargs' = NoneVal
    /\ msg_out' = NoneVal
    /\ msg_xid_arg' = NoneVal
    /\ UNCHANGED <<optvars, encode_ascii, svars, cvars>>

CodecNext ==
    \/ SetClassEncodeAscii
    \/ NewOption
    \/ NewOption82
    \/ SetOwnEncodeAscii
    \/ AssignValue
    \/ PackOption
    \/ DecodeOption
    \/ ReceiveOption
    \/ DropOption
    \/ BuildMessage
    \/ BuildMessageRandomXid
    \/ PackMessage
    \/ DecodeMessage
    \/ CopyMessage
    \/ DropMessage


\* a client that is never called
ClientIdle ==
    /\ ClientInit
    /\ c_repeat = MaxRepeat

\* the server and the calls made on it
Init == ServerInit /\ ClientIdle /\ CodecInit
Spec == Init /\ [][ServerNext]_vars

\* a client and the calls made on it, the datagrams it receives and the
\* timeouts of its socket
ClientSpecInit == ServerInit /\ ClientInit /\ CodecInit
ClientSpec == ClientSpecInit /\ [][ClientNext]_vars

\* the option and message classes and the calls made on them
CodecSpecInit == ServerInit /\ ClientIdle /\ CodecInit
CodecSpec == CodecSpecInit /\ [][CodecNext]_vars


(***************************************************************************)
(* Reading a step of the server: the call that the step makes is call',    *)
(* the lease table the called handler finds is PreTable (handler sweeps    *)
(* before it dispatches).                                                  *)
(***************************************************************************)
IsCall(c, fn, mtype) ==
    \/ c.fn = fn
    \/ c.fn = "handler" /\ c.arg.option53 = mtype

\* the message is as from_bytes builds it: address values are strings
Decoded(c) == c.fn = "handler" \/ c.arg.option54.t = "str"

ArgOption54(c) ==
    IF c.fn = "handler" THEN c.arg.option54 ELSE c.arg.option54.v
ArgOption50(c) ==
    IF c.fn = "handler" THEN c.arg.option50 ELSE c.arg.option50.v
ArgCiaddr(c) ==
    IF c.fn = "handler" THEN c.arg.ciaddr ELSE c.arg.ciaddr.v

PreTable == IF call'.fn = "handler" THEN _update_leases(leases, now) ELSE leases

\* the step answers with a reply of type mtype whose yiaddr is ip
Replies(mtype, ip) ==
    IF call'.fn = "handler"
    THEN /\ Len(sent') = Len(sent) + 1
         /\ sent'[Len(sent')].op = BOOTREPLY
         /\ sent'[Len(sent')].option53 = mtype
         /\ sent'[Len(sent')].yiaddr = ip
    ELSE /\ exc' = "none"
         /\ ret' # NoneVal
         /\ ret'.op = BOOTREPLY
         /\ ret'.option53 = mtype
         /\ ret'.yiaddr = Str(ip)

\* the step sends nothing and returns nothing
Silent == sent' = sent /\ ret' = NoneVal

HostsOf(cfg) == cfg.addr_range[1] .. cfg.addr_range[2]

(***************************************************************************)
(* C1  Every address that DISCOVER handling allocates lies within the      *)
(* configured addr_range, is not the network address, the broadcast        *)
(* address or the server identifier, and is not, when it is allocated,     *)
(* ACTIVE for a different hardware address.                                *)
(***************************************************************************)
C1_AllocatedAddressAllowed ==
    [][ (/\ call = NoCall
         /\ IsCall(call', "dhcp_discover_handler", DHCPDISCOVER)
         /\ yiaddr' # NoIp)
        => /\ yiaddr' \in HostsOf(config)
           /\ yiaddr' # config.net.network_address
           /\ yiaddr' # config.net.broadcast_address
           /\ yiaddr' # config.identifier.v
           /\ ~ (/\ yiaddr' \in DOMAIN PreTable
                 /\ PreTable[yiaddr'].state = ACTIVE
                 /\ PreTable[yiaddr'].chaddr # call'.arg.chaddr) ]_vars

(***************************************************************************)
(* C2  A decoded REQUEST whose option 54 equals the configured identifier, *)
(* whose option 50 names an address with an OFFERED lease and whose xid    *)
(* and chaddr are those the offering DISCOVER stored on the lease makes    *)
(* the lease ACTIVE with expiry now + lease_time and is answered with an   *)
(* ACK whose yiaddr is the requested address.                              *)
(***************************************************************************)
C2_RequestAcknowledged ==
    [][ \A ip \in DOMAIN PreTable :
          (/\ call = NoCall
           /\ IsCall(call', "dhcp_request_handler", DHCPREQUEST)
           /\ Decoded(call')
           /\ ArgOption54(call') = config.identifier.v
           /\ ArgOption50(call') = ip
           /\ PreTable[ip].state = OFFERED
           /\ PreTable[ip]._xid = call'.arg.xid
           /\ PreTable[ip].chaddr = call'.arg.chaddr)
          => /\ leases'[ip].state = ACTIVE
             /\ leases'[ip].end_time = now + config.lease_time
             /\ Replies(DHCPACK, ip) ]_vars

(***************************************************************************)
(* C3  DISCOVER handling allocates the lowest address of addr_range that   *)
(* has no lease, or whose lease carries the requester's hardware address,  *)
(* or whose lease is FREE; it leaves that lease OFFERED with the           *)
(* requester's hardware address and changes no other lease.  With an empty *)
(* table and the range 10.0.0.10 to 10.0.0.20 it allocates 10.0.0.10.      *)
(***************************************************************************)
Allocatable(ls, cfg, chaddr) ==
    { ip \in HostsOf(cfg) :
        \/ ip \notin DOMAIN ls
        \/ ls[ip].chaddr = chaddr
        \/ ls[ip].state = FREE }

Lowest(S) == CHOOSE x \in S : \A y \in S : x <= y

Config1020 ==
    DHCPServerConfig(Net27,
                     Tuple(<<Ip(10, 0, 0, 10), Ip(10, 0, 0, 20)>>),
                     DEFAULT_LEASE_TIME, NoneVal)

Scenario1020 ==
    \A c \in CHADDRS : \A x \in XIDS :
        LET g == _get_free_ip(<< >>, Config1020, c, x, 0)
        IN  /\ g.ip = Ip(10, 0, 0, 10)
            /\ DOMAIN g.leases = {Ip(10, 0, 0, 10)}
            /\ g.leases[g.ip].state = OFFERED
            /\ g.leases[g.ip].chaddr = c

C3_LowestAllocatable ==
    [][ (/\ call = NoCall
         /\ call'.fn = "dhcp_discover_handler"
         /\ Allocatable(leases, config, call'.arg.chaddr) # {})
        => LET ip == Lowest(Allocatable(leases, config, call'.arg.chaddr))
           IN  /\ yiaddr' = ip
               /\ DOMAIN leases' = DOMAIN leases \cup {ip}
               /\ leases'[ip].state = OFFERED
               /\ leases'[ip].chaddr = call'.arg.chaddr
               /\ \A other \in DOMAIN leases \ {ip} :
                     leases'[other] = leases[other]
               /\ (leases = << >> => ip = config.addr_range[1])
               /\ Scenario1020 ]_vars

\* a DISCOVER was given the second address of the range: the first is held
\* by another hardware address
C3_Witness ==
    /\ call.fn = "dhcp_discover_handler"
    /\ yiaddr = config.addr_range[1] + 1
    /\ leases[yiaddr].state = OFFERED
    /\ leases[yiaddr].chaddr = call.arg.chaddr
    /\ leases[config.addr_range[1]].chaddr # call.arg.chaddr

(***************************************************************************)
(* C7  A decoded RELEASE whose option 54 equals the configured identifier  *)
(* and whose chaddr is the one stored on the lease keyed by its ciaddr     *)
(* makes that lease FREE, whatever its xid, and nothing is sent.           *)
(***************************************************************************)
C7_ReleaseFrees ==
    [][ \A ip \in DOMAIN PreTable :
          (/\ call = NoCall
           /\ IsCall(call', "dhcp_release_handler", DHCPRELEASE)
           /\ Decoded(call')
           /\ ArgOption54(call') = config.identifier.v
           /\ ArgCiaddr(call') = ip
           /\ PreTable[ip].chaddr = call'.arg.chaddr)
          => /\ leases'[ip].state = FREE
             /\ Silent ]_vars

(***************************************************************************)
(* C8  An accepted DECLINE for an OFFERED lease leaves the lease ACTIVE,   *)
(* and from then on, whatever time passes and whatever messages follow, no *)
(* DISCOVER from another hardware address is allocated that address until  *)
(* a RELEASE for it is accepted.                                           *)
(***************************************************************************)
C8_DeclinedStaysBlocked ==
    [][ /\ \A ip \in DOMAIN PreTable :
             (/\ call = NoCall
              /\ IsCall(call', "dhcp_decline_handler", DHCPDECLINE)
              /\ ip \in declined' \ declined
              /\ PreTable[ip].state = OFFERED)
             => leases'[ip].state = ACTIVE
        /\ (/\ call = NoCall
            /\ IsCall(call', "dhcp_discover_handler", DHCPDISCOVER)
            /\ yiaddr' \in declined)
           => PreTable[yiaddr'].chaddr = call'.arg.chaddr ]_vars

(***************************************************************************)
(* C9  A REQUEST whose option 54 differs from the configured identifier,   *)
(* or whose option-50 address has no lease, or whose xid differs from the  *)
(* lease's stored transaction id, or whose chaddr differs from the lease's *)
(* stored hardware address, is rejected with no effect: nothing is sent or *)
(* returned and the request handler changes no lease.                      *)
(***************************************************************************)
Rejectable(c, ls, cfg) ==
    \/ ArgOption54(c) # cfg.identifier.v
    \/ ArgOption50(c) \notin DOMAIN ls
    \/ ls[ArgOption50(c)]._xid # c.arg.xid
    \/ ls[ArgOption50(c)].chaddr # c.arg.chaddr

C9_RejectedRequestNoEffect ==
    [][ (/\ call = NoCall
         /\ IsCall(call', "dhcp_request_handler", DHCPREQUEST)
         /\ Rejectable(call', PreTable, config))
        => /\ leases' = PreTable
           /\ Silent
           /\ call'.fn = "dhcp_request_handler" => exc' = "none" ]_vars

\* a REQUEST that passes the identifier and the hardware address check was
\* rejected for its xid alone
C9_Witness ==
    /\ call.fn = "dhcp_request_handler"
    /\ call.arg.option54 = config.identifier
    /\ call.arg.option50.v \in DOMAIN leases
    /\ leases[call.arg.option50.v].chaddr = call.arg.chaddr
    /\ leases[call.arg.option50.v]._xid # call.arg.xid
    /\ leases[call.arg.option50.v].state = OFFERED
    /\ ret = NoneVal
    /\ exc = "none"

(***************************************************************************)
(* C10  Sweeping twice at the same time leaves the lease table that one    *)
(* sweep leaves.                                                           *)
(***************************************************************************)
C10_SweepIdempotent ==
    _update_leases(_update_leases(leases, now), now)
        = _update_leases(leases, now)

\* a sweep has just freed an expired lease and kept one that is not expired
C10_Witness ==
    /\ call.fn = "_update_leases"
    /\ \E ip \in DOMAIN leases :
          /\ now > leases[ip].end_time
          /\ leases[ip].state = FREE
    /\ \E ip \in DOMAIN leases :
          /\ ~ (now > leases[ip].end_time)
          /\ leases[ip].state # FREE

(***************************************************************************)
(* C4  If every receive times out, start() with repeat_count = n sends     *)
(* exactly n DISCOVER datagrams, one per attempt, never a REQUEST, and     *)
(* ends after the n-th timeout.                                            *)
(***************************************************************************)
C4_ExactlyRepeatCountSends ==
    (c_entry = "start" /\ c_replies = << >>)
    => /\ Len(c_sent) <= c_repeat
       /\ \A i \in 1..Len(c_sent) :
             /\ c_sent[i].option53 = DHCPDISCOVER
             /\ c_sent[i].xid = c_xid
       /\ c_pc = "waiting" => Len(c_sent) = c_attempt + 1
       /\ c_pc = "done" => Len(c_sent) = c_repeat
       /\ c_attempt >= c_repeat => c_pc = "done"

\* start() with repeat_count = 3 has ended after three timeouts
C4_Witness ==
    /\ c_entry = "start"
    /\ c_replies = << >>
    /\ c_repeat = 3
    /\ c_pc = "done"
    /\ c_attempt = 3
    /\ Len(c_sent) = 3

(***************************************************************************)
(* C5  When every receive of a phase times out, send_dhcp_discover(),      *)
(* send_dhcp_request() and start() return None; they do not raise.         *)
(***************************************************************************)
C5_TimeoutReturnsNone ==
    (c_pc = "done" /\ c_replies = << >>) => c_result = Returned(NoneVal)

(***************************************************************************)
(* C6  A message that start() returns is an ACK with the client's xid and  *)
(* the server identifier of the accepted offer; after any other reply in   *)
(* the request phase the result is the returned None.                      *)
(***************************************************************************)
IsAck(m, xid, server_identifier) ==
    /\ m.option53 = DHCPACK
    /\ m.xid = xid
    /\ m.option54 = server_identifier.v

C6_SuccessIsAck ==
    /\ (/\ c_pc = "done"
        /\ c_entry = "start"
        /\ c_result.kind = "returned"
        /\ c_result.value # NoneVal)
       => /\ c_result.value.option53 = DHCPACK
          /\ c_result.value.xid = c_xid
          /\ c_result.value.option54 = c_server_identifier
    /\ (/\ c_pc = "done"
        /\ c_phase = "send_dhcp_request"
        /\ c_xid # NoKey
        /\ c_replies # << >>
        /\ ~ IsAck(c_replies[Len(c_replies)], c_xid, c_server_identifier))
       => c_result = Returned(NoneVal)

(***************************************************************************)
(* Claims about the option and message classes (CodecSpec).                *)
(***************************************************************************)

\* C11: for every message built with options, DHCPMessage.from_bytes of
\* its pack() succeeds and yields a message with the same header fields and
\* the same options with the same values.
C11_MessageRoundTrip ==
    msg_pc = "decoded" =>
        /\ msg_out.exc = "none"
        /\ msg_out.msg = msg_base

\* the option variants the round trip is stated for: one address string;
\* a list of one or more address strings on the options that take a list
\* (3 and 6); an int that the option's width holds on option 51, a message
\* type on option 53; an ASCII string; an option 82 whose mode is that of
\* the class, with a circuit id 1..255 and a remote id of lower-case hex
\* digits in binary mode, and two ASCII strings in ASCII mode
IsText(value) == value # NoneVal /\ "chars" \in DOMAIN value

LowerHex(chars) ==
    IsHex(chars) /\ \A i \in 1..Len(chars) : chars[i] \notin 65..70

SupportedVariant(self, cls_encode_ascii) ==
    LET base == OPTIONS[self.code].base
        value == self.value
    IN  IF base = "_DHCPOptionIP"
        THEN /\ value # NoneVal
             /\ \/ value.t = "str"
                \/ /\ value.t = "list"
                   /\ self.code \in {3, 6}
                   /\ Len(value.items) >= 1
        ELSE IF base = "_DHCPOptionInt"
        THEN /\ value # NoneVal
             /\ IF self.code = 53 THEN value.v \in MESSAGE_TYPES
                ELSE Fits(value.v, self.length)
        ELSE IF base = "_DHCPOptionStr"
        THEN IsText(value) /\ IsAscii(value.chars)
        ELSE /\ self.own_encode_ascii = "unset"
             /\ IsInstance(self.circuit_id)
             /\ IsInstance(self.remote_id)
             /\ IsText(self.remote_id.value)
             /\ IF cls_encode_ascii
                THEN /\ IsText(self.circuit_id.value)
                     /\ IsAscii(self.circuit_id.value.chars)
                     /\ IsAscii(self.remote_id.value.chars)
                ELSE /\ self.circuit_id.value.t = "int"
                     /\ self.circuit_id.value.v \in 1..255
                     /\ LowerHex(self.remote_id.value.chars)

\* C12: for every supported option variant, decoding the bytes produced by
\* encoding the option yields an option with the same value.
C12_OptionRoundTrip ==
    (opt_pc = "decoded" /\ opt_packs = 1
        /\ SupportedVariant(opt, encode_ascii)) =>
        /\ opt_exc = "none"
        /\ ValueOf(opt_dec) = ValueOf(opt)

IsOption53WithInt(o) ==
    o # NoneVal /\ o.code = 53 /\ o.value # NoneVal /\ o.value.t = "int"

\* C14: giving an option 53 an integer that is not one of the message
\* types 1..8 raises at once - in the constructor, in a later assignment
\* and in from_bytes - and no option 53 holds an integer outside 1..8.
C14_MessageTypeChecked ==
    /\ IsOption53WithInt(opt) => opt.value.v \in MESSAGE_TYPES
    /\ IsOption53WithInt(opt_dec) => opt_dec.value.v \in MESSAGE_TYPES
    /\ (opt_pc \in {"built", "raised"} /\ opt_arg.code = 53
           /\ opt_arg.value # NoneVal
           /\ opt_arg.value.v \notin MESSAGE_TYPES) => opt_exc = "ValueError"
    /\ (opt_pc = "received" /\ opt_bytes[1] = 53 /\ Len(opt_bytes) = 3
           /\ opt_bytes[3] \notin MESSAGE_TYPES) => opt_exc = "ValueError"

\* C15: DHCPMessage.from_message(base, op=, yiaddr=, options=) returns a
\* new message that has the overrides and, in every other field, what base
\* has.
C15_FromMessageCopies ==
    msg_pc = "copied" =>
        /\ msg_out.exc = "none"
        /\ msg_out.msg =
             [op |-> msg_kwargs.op,
              xid |-> msg_base.xid,
              ciaddr |-> msg_base.ciaddr,
              yiaddr |-> msg_kwargs.yiaddr,
              chaddr |-> msg_base.chaddr,
              option53 |-> msg_kwargs.options.option53,
              option54 |-> msg_kwargs.options.option54,
              option50 |-> NoneVal,
              option51 |-> msg_kwargs.options.option51]

(***************************************************************************)
(* Further claims about the server (Spec).                                 *)
(***************************************************************************)

C16_UnhandledTypeIgnored ==
    [][ (/\ call = NoCall
         /\ call'.fn = "handler"
         /\ call'.arg.option53 \notin
                {DHCPDISCOVER, DHCPREQUEST, DHCPRELEASE, DHCPDECLINE})
        => exc' = "none" /\ sent' = sent ]_vars

\* the addr_range of configuration c is inside its network, ordered, and
\* names none of the excluded addresses
RangeValid(c) ==
    /\ c.addr_range[1] <= c.addr_range[2]
    /\ \A i \in 1..2 :
          /\ c.addr_range[i] >= c.net.network_address
          /\ c.addr_range[i] <= c.net.broadcast_address
          /\ c.addr_range[i] # c.net.network_address
          /\ c.addr_range[i] # c.net.broadcast_address
          /\ c.addr_range[i] # c.identifier.v

\* the constructor arguments a name a range of two addresses that would
\* not be RangeValid, a prefix of 31 or 32, or a lease_time that is not
\* positive
ArgsInvalid(a) ==
    LET size == 2 ^ (32 - a[1][2])
        lo == a[1][1]
        hi == a[1][1] + size - 1
        ident == IF a[4] = NoneVal THEN Ip(0, 0, 0, 0) ELSE a[4].v
        range == IF a[2] = NoneVal THEN <<lo + 1, hi - 1>> ELSE a[2].items
    IN  \/ a[1][2] \in {31, 32}
        \/ a[3] <= 0
        \/ Len(range) # 2
        \/ /\ Len(range) = 2
           /\ \/ range[1] > range[2]
              \/ \E i \in 1..2 : range[i] \in {lo, hi, ident}
              \/ \E i \in 1..2 : range[i] < lo \/ range[i] > hi

\* C17: a DHCPServerConfig that was constructed has a valid addr_range, and
\* constructing one from invalid arguments raises DHCPConfigInitError.
C17_ConfigValid ==
    /\ RangeValid(config)
    /\ \A a \in ConfigArgs :
          LET c == DHCPServerConfig(a[1], a[2], a[3], a[4])
          IN  /\ c.exc = "none" => RangeValid(c)
              /\ (a[1][1] % (2 ^ (32 - a[1][2])) = 0 /\ ArgsInvalid(a))
                 => c.exc = "DHCPConfigInitError"

\* C18: after a DISCOVER that is allocated an address, the _xid of that
\* address's lease is the xid of the DISCOVER, for a new lease and for a
\* lease that is offered again.
C18_OfferStoresXid ==
    [][ (/\ call = NoCall
         /\ IsCall(call', "dhcp_discover_handler", DHCPDISCOVER)
         /\ yiaddr' # NoIp)
        => leases'[yiaddr']._xid = call'.arg.xid ]_vars

(***************************************************************************)
(* An offer made at time 0 to the first hardware address on the range      *)
(* 10.0.0.10 to 10.0.0.20, then a REQUEST or DECLINE for that address by   *)
(* the second one, then the sweep and a DISCOVER of the second one t       *)
(* seconds later, for every t below the hold: the second hardware address  *)
(* is given another address and the first keeps its OFFERED lease.         *)
(***************************************************************************)
HoldScenario ==
    LET A == "AA:00:00:00:00:01"
        B == "AA:00:00:00:00:02"
        first == _get_free_ip(<< >>, Config1020, A, 1, 0)
        o54s == { Str(Config1020.identifier.v),
                  IPv4Address(Config1020.identifier.v) }
    IN  \A t \in 0..(OFFER_HOLD - 1) : \A x \in XIDS : \A o54 \in o54s :
          LET req == dhcp_request_handler(
                         first.leases, Config1020, t,
                         Request(DHCPREQUEST, x, Str(Ip(0, 0, 0, 0)), B,
                                 o54, Str(first.ip)))
              dec == dhcp_decline_handler(
                         req.leases, Config1020, t,
                         Request(DHCPDECLINE, x, Str(Ip(0, 0, 0, 0)), B,
                                 o54, Str(first.ip)))
              g == _get_free_ip(_update_leases(dec.leases, t), Config1020,
                                B, x, t)
          IN  /\ g.ip # first.ip
              /\ g.leases[first.ip] = first.leases[first.ip]

\* C19: while fewer than 60 seconds have passed since an address was
\* offered to a hardware address that has not released it, a DISCOVER of
\* another hardware address is not allocated that address, whatever other
\* messages were handled in between.
C19_OfferHeld ==
    [][ /\ \A ip \in DOMAIN offers :
             (/\ call = NoCall
              /\ IsCall(call', "dhcp_discover_handler", DHCPDISCOVER)
              /\ now - offers[ip].at < OFFER_HOLD
              /\ offers[ip].chaddr # call'.arg.chaddr)
             => /\ yiaddr' # ip
                /\ leases'[ip].chaddr = offers[ip].chaddr
                /\ leases'[ip].state # FREE
        /\ (call = NoCall /\ leases = << >>) => HoldScenario ]_vars

\* a DISCOVER was given an address while another address is held by the
\* offer made to a different hardware address
C19_Witness ==
    /\ call.fn = "dhcp_discover_handler"
    /\ yiaddr # NoIp
    /\ \E ip \in DOMAIN offers :
          /\ ip # yiaddr
          /\ offers[ip].chaddr # call.arg.chaddr
          /\ now - offers[ip].at < OFFER_HOLD
          /\ leases[ip].state = OFFERED
          /\ leases[ip].chaddr = offers[ip].chaddr

\* C20: handler sweeps before it decodes or dispatches: after a handler
\* step every lease whose end_time is before now is FREE, also when the
\* datagram does not decode, and the sweep that the handlers find applied
\* changes no lease whose end_time has not passed and nothing but state.
C20_SweepBeforeDecode ==
    [][ (call = NoCall /\ call'.fn = "handler") =>
          /\ DOMAIN PreTable = DOMAIN leases
          /\ \A ip \in DOMAIN leases :
                /\ leases[ip].end_time < now => PreTable[ip].state = FREE
                /\ ~ (leases[ip].end_time < now) =>
                      PreTable[ip] = leases[ip]
                /\ PreTable[ip] =
                      [leases[ip] EXCEPT !.state = PreTable[ip].state]
                /\ leases[ip].end_time < now => leases'[ip].state = FREE
          /\ exc' = "ValueError" => leases' = PreTable ]_vars

\* handler was given a datagram that did not decode: the lease whose
\* end_time had passed is FREE and the one still running is as it was
C20_Witness ==
    /\ call.fn = "handler"
    /\ exc = "ValueError"
    /\ \E ip \in DOMAIN leases :
          leases[ip].state = FREE /\ leases[ip].end_time < now
    /\ \E ip \in DOMAIN leases :
          leases[ip].state # FREE /\ leases[ip].end_time >= now

(***************************************************************************)
(* Further claims about the client (ClientSpec).                           *)
(***************************************************************************)

\* the datagram is a reply that send_dhcp_discover accepts as the offer
IsOfferFor(datagram, xid) ==
    datagram.xid = xid /\ datagram.option53 = DHCPOFFER

\* C21: start() sends a REQUEST only after the discover phase received an
\* OFFER with the client's xid, and the REQUEST carries the xid of the
\* DISCOVER before it; when the discover phase ends otherwise (another
\* xid, another type, or timeouts only), start() returns None and has sent
\* nothing but the DISCOVERs of that phase.
C21_RequestOnlyAfterOffer ==
    c_entry = "start" =>
       /\ \A i \in 1..Len(c_sent) :
             c_sent[i].option53 = DHCPREQUEST
             => /\ i > 1
                /\ c_sent[1].option53 = DHCPDISCOVER
                /\ c_sent[i].xid = c_sent[1].xid
                /\ c_replies # << >>
                /\ IsOfferFor(c_replies[1], c_xid)
       /\ (/\ c_pc = "done"
           /\ c_replies = << >> \/ ~ IsOfferFor(c_replies[1], c_xid))
          => /\ c_result = Returned(NoneVal)
             /\ Len(c_sent) <= c_repeat
             /\ \A i \in 1..Len(c_sent) :
                   c_sent[i].option53 = DHCPDISCOVER

(***************************************************************************)
(* Further claims about the lease table (Spec).                            *)
(***************************************************************************)

\* the step makes the lease of ip ACTIVE, which it was not before
BecomesActive(ip) ==
    /\ leases'[ip].state = ACTIVE
    /\ ip \notin DOMAIN leases \/ leases[ip].state # ACTIVE

\* C22: a lease becomes ACTIVE only in the step of a REQUEST for it that
\* names its hardware address and xid while it is OFFERED, or of a DECLINE
\* for it that names its hardware address; a REQUEST for a lease that is
\* FREE leaves it FREE.
C22_ActiveOnlyByRequestOrDecline ==
    [][ /\ \A ip \in DOMAIN leases' :
             BecomesActive(ip) =>
                /\ call = NoCall
                /\ ip \in DOMAIN PreTable
                /\ PreTable[ip].chaddr = call'.arg.chaddr
                /\ ArgOption50(call') = ip
                /\ \/ /\ IsCall(call', "dhcp_request_handler", DHCPREQUEST)
                      /\ PreTable[ip].state = OFFERED
                      /\ PreTable[ip]._xid = call'.arg.xid
                   \/ IsCall(call', "dhcp_decline_handler", DHCPDECLINE)
        /\ \A ip \in DOMAIN leases :
             (/\ call = NoCall
              /\ IsCall(call', "dhcp_request_handler", DHCPREQUEST)
              /\ PreTable[ip].state = FREE)
             => leases'[ip].state = FREE ]_vars

\* dhcp_request_handler found the lease that a REQUEST names, which is
\* FREE after its RELEASE, and left it FREE; another lease is ACTIVE by an
\* accepted DECLINE
C22_Witness ==
    /\ call.fn = "dhcp_request_handler"
    /\ exc = "TypeError"
    /\ call.arg.option50.v \in DOMAIN leases
    /\ leases[call.arg.option50.v].state = FREE
    /\ leases[call.arg.option50.v].chaddr = call.arg.chaddr
    /\ leases[call.arg.option50.v]._xid = call.arg.xid
    /\ \E ip \in declined : leases[ip].state = ACTIVE

(***************************************************************************)
(* Further claims about the option classes (CodecSpec).                    *)
(***************************************************************************)

\* the payload bytes that encode the value of an option of the class with
\* this code: 4 bytes per address, the big-endian integer in the width of
\* the class, the characters of a string
RECURSIVE AddressBytes(_)
AddressBytes(items) ==
    IF items = << >> THEN << >>
    ELSE to_bytes(items[1].v, 4) \o AddressBytes(Tail(items))

Encoding(code, value) ==
    LET base == OPTIONS[code].base
    IN  IF base = "_DHCPOptionIP"
        THEN (IF value.t = "list" THEN AddressBytes(value.items)
              ELSE to_bytes(value.v, 4))
        ELSE IF base = "_DHCPOptionInt"
        THEN to_bytes(value.v, OPTIONS[code].length)
        ELSE value.chars

\* C23: whenever pack() of an address, integer or string option returns,
\* also when it is called again and after the value was changed, the bytes
\* are the code, the number of bytes that encode the current value, and
\* those bytes in full.
C23_PackMatchesValue ==
    (opt_pc = "packed" /\ opt.code # 82)
    => LET enc == Encoding(opt.code, opt.value)
       IN  /\ opt_bytes[1] = opt.code
           /\ opt_bytes[2] = Len(enc)
           /\ SubSeq(opt_bytes, 3, Len(opt_bytes)) = enc

\* C24: a message constructed without an xid has an xid in 0..2^32-1, and
\* pack() of such a message does not raise.
C24_RandomXidFits ==
    (msg_pc # "none" /\ ~ Truthy(msg_xid_arg))
    => /\ WideLe(Wide(0, 0), msg_base.xid)
       /\ WideLe(msg_base.xid, Wide(2 ^ 16 - 1, 2 ^ 16 - 1))
       /\ msg_pc # "failed"

\* C25: no hardware address is on two leases that are OFFERED or ACTIVE.
C25_OneAddressPerClient ==
    \A ip1 \in DOMAIN leases : \A ip2 \in DOMAIN leases :
        (/\ ip1 # ip2
         /\ leases[ip1].state # FREE
         /\ leases[ip2].state # FREE)
        => leases[ip1].chaddr # leases[ip2].chaddr

====
